---- MODULE Spec2Model ----
(***************************************************************************)
(* joshbot: the message bus, the agent loop (ReAct state machine), the     *)
(* subagent runner and the cron scheduler, modelled from src/joshbot.      *)
(*                                                                         *)
(* Text is modelled as sequences of one-character strings so that          *)
(* startswith / strip / lower / regular-expression matches are computed.   *)
(* Every asyncio task is a process of the model; one action is the code    *)
(* that runs between two suspension points of the event loop.              *)
(***************************************************************************)
EXTENDS Integers, Sequences, FiniteSets, TLC

(***************************************************************************)
(* Bounds of the model                                                     *)
(***************************************************************************)
\* capacity of each bus queue (bus/queue.py:16 sets 1000; scaled down)
MAX_QUEUE_SIZE == 2
\* number of publish_inbound calls the channels make in one behaviour of Spec
MaxPublished == 2
\* number of publish calls made in one behaviour of SpecBus
MaxBusPublished == 3
\* agents.defaults.max_tool_iterations (config/schema.py:31 sets 20; scaled down)
max_tool_iterations == 2
\* agents.defaults.memory_window (config/schema.py:32 sets 50; scaled down)
memory_window == 2
\* MAX_MESSAGES of SessionManager.save (session/manager.py:96 sets 1000; scaled down)
MAX_MESSAGES == 6
\* SubagentRunner max_iterations (agent/subagent.py:31 defaults to 10; scaled down)
sub_max_iterations == 2
\* number of jobs created in one behaviour
MaxJobs == 1
\* the clock stops at this many seconds
MaxTime == 300

VARIABLES
    \* ---- MessageBus (bus/queue.py)
    inbound,            \* _inbound: FIFO of InboundMessage
    outbound,           \* _outbound: FIFO of OutboundMessage
    inbound_handlers,   \* _inbound_handlers, in registration order
    outbound_handlers,  \* _outbound_handlers, in registration order
    bus_running,        \* _running
    in_pc, in_msg, in_idx,     \* position of the _process_inbound task
    out_pc, out_msg, out_idx,  \* position of the _process_outbound task
    \* ---- history of the bus (not program state)
    n_in,               \* number of publish_inbound calls so far (the id of the last)
    n_out,              \* number of publish_outbound calls so far
    in_ret,             \* what the last publish_inbound call returned
    out_ret,            \* what the last publish_outbound call returned
    n_user,             \* number of publish calls made by the environment
    accepted_in,        \* ids of inbound messages enqueued successfully, in order
    in_log,             \* handler invocations of the inbound loop: begin/end events
    out_inv,            \* handler invocations for the outbound message being dispatched
    \* ---- AgentLoop (agent/loop.py) and SessionManager (session/manager.py)
    a_pc,               \* position of _process_message / _react_loop
    a_iter,             \* `iteration` of _react_loop
    a_messages,         \* `messages`: the model-facing list
    a_pending,          \* tool calls of the current response not yet executed
    tools,              \* ToolRegistry._tools: registered names, in insertion order
    cache,              \* SessionManager._cache: key -> messages (or NoSession)
    disk,               \* session files: path -> messages (or NoFile)
    \* ---- history of the current / last turn (not program state)
    a_calls,            \* provider.chat calls made by _react_loop in this turn
    a_ccalls,           \* provider.chat calls made by _consolidate_memory in this turn
    a_sent,             \* _send_response calls of this turn: the message, the inbound
                        \* message answered, whether the queue was full, the flag returned
    \* ---- the memory files (agent/memory.py, agent/loop.py:278-304)
    memory_md,          \* memory/MEMORY.md: LongTermFacts (or no file)
    history_md,         \* memory/HISTORY.md: the EventLog, a list of blocks (or no file)
    \* ---- SubagentRunner.run (agent/subagent.py)
    sub_pc,             \* position of run()
    sub_iter,           \* `iteration`
    sub_schemas,        \* `restricted_schemas`: the tool names offered
    sub_messages,       \* `messages`
    sub_pending,        \* permitted tool calls of the current response not yet executed
    sub_result,         \* what run() returned
    \* ---- history of the current / last run (not program state)
    sub_offered,        \* the `tools=` argument of every provider.chat call of the run
    sub_requested,      \* the tool names the model asked for in its last response
    sub_executed,       \* the names passed to ToolRegistry.execute, in order
    \* ---- CronService (cron/service.py)
    cron_running,       \* _running
    jobs,               \* _jobs: job id -> CronJob (or NoJob)
    jobs_file,          \* jobs.json: the job records written last (or no file)
    timers,             \* _timers: job id -> its timer task (or NoTimer)
    orphans,            \* job id -> its timer tasks that _timers holds no more
    now,                \* the clock, in seconds
    next_job,           \* the next fresh job id
    \* ---- history of the scheduler (not program state)
    fire_count,         \* job id -> number of _execute_job calls for it
    last_fired,         \* the latest _execute_job call: job, message, time, flag returned
    cron_call,          \* the latest CronTool.execute call and the text it returned
    \* ---- history of direct calls (not program state)
    sess_saved,         \* the latest SessionManager.save call: key, messages before it
    exec_call           \* the latest ToolRegistry.execute call and how it ended

inLoop == <<in_pc, in_msg, in_idx>>
outLoop == <<out_pc, out_msg, out_idx>>
inPub == <<n_in, in_ret>>
outPub == <<n_out, out_ret>>
pubHist == <<inPub, outPub>>
busVars == <<inbound, outbound, inbound_handlers, outbound_handlers, bus_running,
             inLoop, outLoop, pubHist, n_user, accepted_in, in_log, out_inv>>
memVars == <<memory_md, history_md>>
agentVars == <<a_pc, a_iter, a_messages, a_pending, tools, cache, disk,
               a_calls, a_ccalls, a_sent, memVars>>
callVars == <<sess_saved, exec_call>>
subVars == <<sub_pc, sub_iter, sub_schemas, sub_messages, sub_pending, sub_result,
             sub_offered, sub_requested, sub_executed>>
cronVars == <<cron_running, jobs, jobs_file, timers, orphans, now, next_job,
              fire_count, last_fired, cron_call>>
vars == <<busVars, agentVars, subVars, cronVars, callVars>>

(***************************************************************************)
(* Text helpers                                                            *)
(***************************************************************************)
Whitespace == {" ", "\n", "\t"}

LowerMap == [A |-> "a", B |-> "b", C |-> "c", D |-> "d", E |-> "e", F |-> "f",
             G |-> "g", H |-> "h", I |-> "i", J |-> "j", K |-> "k", L |-> "l",
             M |-> "m", N |-> "n", O |-> "o", P |-> "p", Q |-> "q", R |-> "r",
             S |-> "s", T |-> "t", U |-> "u", V |-> "v", W |-> "w", X |-> "x",
             Y |-> "y", Z |-> "z"]

\* str.lower()
Lower(s) == [i \in 1..Len(s) |-> IF s[i] \in DOMAIN LowerMap THEN LowerMap[s[i]] ELSE s[i]]

RECURSIVE LStrip(_)
LStrip(s) == IF s # <<>> /\ Head(s) \in Whitespace THEN LStrip(Tail(s)) ELSE s

RECURSIVE RStrip(_)
RStrip(s) == IF s # <<>> /\ s[Len(s)] \in Whitespace
             THEN RStrip(SubSeq(s, 1, Len(s) - 1)) ELSE s

\* str.strip()
Strip(s) == RStrip(LStrip(s))

\* a prefix test that never succeeds
StartsWithNothing(s, p) == FALSE

\* str.startswith(p)
StartsWith(s, p) == Len(s) >= Len(p) /\ SubSeq(s, 1, Len(p)) = p


(***************************************************************************)
(* Values                                                                  *)
(***************************************************************************)
\* conversation keys (InboundMessage.channel_id) and the channel of each
KeyCli == <<"c", "l", "i", ":", "l">>
KeyTg == <<"t", "g", ":", "1">>
Keys == {KeyCli, KeyTg}
ChannelOf(k) == IF k = KeyCli THEN "cli" ELSE "telegram"

\* texts the channels publish
TxtHi == <<"h", "i">>
TxtNew == <<"/", "N", "e", "w", " ">>
TxtOther == <<"/", "x">>
TxtStatus == <<"/", "s", "t", "a", "t", "u", "s">>

NoMsg == [id |-> 0]
\* a cache entry / a session file, present or absent
NoSession == [present |-> FALSE, messages |-> <<>>]
Session(msgs) == [present |-> TRUE, messages |-> msgs]
NoFile == [present |-> FALSE, lines |-> <<>>]
File(lines) == [present |-> TRUE, lines |-> lines]

\* InboundMessage (bus/events.py); id is the model's tag of the publish call
InboundMessage(i, ch, cid, sid, txt) ==
    [id |-> i, channel |-> ch, channel_id |-> cid, sender_id |-> sid, content |-> txt]

\* OutboundMessage (bus/events.py)
OutboundMessage(ch, cid, txt) ==
    [channel |-> ch, channel_id |-> cid, content |-> txt]

\* InboundMessage.session_key
session_key(m) == m.channel_id

(***************************************************************************)
(* MessageBus (bus/queue.py)                                               *)
(***************************************************************************)
\* a fullness test that lets one message too many in
QueueFullLate(q) == Len(q) > MAX_QUEUE_SIZE

\* asyncio.Queue.full() for maxsize = MAX_QUEUE_SIZE
QueueFull(q) == Len(q) >= MAX_QUEUE_SIZE

\* publish_inbound / publish_outbound: the queue afterwards and the flag returned
Publish(q, m) ==
    IF QueueFull(q) THEN [queue |-> q, ret |-> FALSE]
    ELSE [queue |-> Append(q, m), ret |-> TRUE]

\* a queue that hands out the newest message first
QueueGetNewest(q) == [msg |-> q[Len(q)], queue |-> SubSeq(q, 1, Len(q) - 1)]

\* asyncio.Queue.get(): the message popped and the queue afterwards
QueueGet(q) == [msg |-> Head(q), queue |-> Tail(q)]

\* the handlers that may register with the bus
Handlers == {"h1", "h2"}

\* a `for handler` loop that an exception leaves
NextHandlerAbort(i, raised) == IF raised THEN Cardinality(Handlers) + 1 ELSE i + 1

\* the handler invoked after handler number i of the `for handler` loop, whether it
\* returned or raised (the `except Exception` inside the loop only logs)
NextHandler(i, raised) == i + 1

\* a consumer loop that does not read the flag at its top
LoopAfterKeepsOn(i, raised, handlers) ==
    IF NextHandler(i, raised) <= Len(handlers)
    THEN [pc |-> "handle", idx |-> NextHandler(i, raised)]
    ELSE [pc |-> "wait", idx |-> 0]

\* where a consumer loop is after its handler number i has finished: at the next
\* handler, or back at `while self._running` and from there in wait_for(get) or out
LoopAfter(i, raised, handlers) ==
    IF NextHandler(i, raised) <= Len(handlers)
    THEN [pc |-> "handle", idx |-> NextHandler(i, raised)]
    ELSE [pc |-> IF bus_running THEN "wait" ELSE "stopped", idx |-> 0]

\* the loop's `message` once the loop is where `after` says: dead outside the handlers
MessageAfter(after, m) == IF after.pc = "handle" THEN m ELSE NoMsg

\* a channel publishes an inbound message
PublishInbound(k, txt) ==
    /\ LET m == InboundMessage(n_in + 1, ChannelOf(k), k, "user", txt)
           r == Publish(inbound, m)
       IN /\ inbound' = r.queue
          /\ in_ret' = r.ret
          /\ accepted_in' = IF r.ret THEN Append(accepted_in, m.id) ELSE accepted_in
    /\ n_in' = n_in + 1
    /\ n_user' = n_user + 1
    /\ UNCHANGED <<outbound, inbound_handlers, outbound_handlers, bus_running,
                   inLoop, outLoop, outPub, in_log, out_inv>>
    /\ UNCHANGED <<agentVars, subVars, cronVars, callVars>>

\* some component publishes an outbound message
PublishOutbound(k, txt) ==
    /\ LET m == OutboundMessage(ChannelOf(k), k, txt)
           r == Publish(outbound, m)
       IN /\ outbound' = r.queue
          /\ out_ret' = r.ret
    /\ n_out' = n_out + 1
    /\ n_user' = n_user + 1
    /\ UNCHANGED <<inbound, inbound_handlers, outbound_handlers, bus_running,
                   inLoop, outLoop, inPub, accepted_in, in_log, out_inv>>
    /\ UNCHANGED <<agentVars, subVars, cronVars, callVars>>

\* on_inbound
OnInbound(h) ==
    /\ \A i \in 1..Len(inbound_handlers) : inbound_handlers[i] # h
    /\ inbound_handlers' = Append(inbound_handlers, h)
    /\ UNCHANGED <<inbound, outbound, outbound_handlers, bus_running, inLoop, outLoop,
                   pubHist, n_user, accepted_in, in_log, out_inv>>
    /\ UNCHANGED <<agentVars, subVars, cronVars, callVars>>

\* on_outbound: a channel registers its _handle_outbound when it starts
OnOutbound(h) ==
    /\ \A i \in 1..Len(outbound_handlers) : outbound_handlers[i] # h
    /\ outbound_handlers' = Append(outbound_handlers, h)
    /\ UNCHANGED <<inbound, outbound, inbound_handlers, bus_running, inLoop, outLoop,
                   pubHist, n_user, accepted_in, in_log, out_inv>>
    /\ UNCHANGED <<agentVars, subVars, cronVars, callVars>>

\* start(): sets the flag and runs both consumer loops up to their wait_for(get)
BusStart ==
    /\ in_pc = "init" /\ out_pc = "init"
    /\ bus_running' = TRUE
    /\ in_pc' = "wait" /\ out_pc' = "wait"
    /\ UNCHANGED <<inbound, outbound, inbound_handlers, outbound_handlers,
                   in_msg, in_idx, out_msg, out_idx,
                   pubHist, n_user, accepted_in, in_log, out_inv>>
    /\ UNCHANGED <<agentVars, subVars, cronVars, callVars>>

\* stop(): flips the flag
BusStop ==
    /\ bus_running
    /\ bus_running' = FALSE
    /\ UNCHANGED <<inbound, outbound, inbound_handlers, outbound_handlers,
                   inLoop, outLoop,
                   pubHist, n_user, accepted_in, in_log, out_inv>>
    /\ UNCHANGED <<agentVars, subVars, cronVars, callVars>>

\* _process_inbound: wait_for(get, 1.0) returns a message; with no handler registered
\* the `for` loop is empty and the loop is back at its top at once
InPop ==
    /\ in_pc = "wait"
    /\ inbound # <<>>
    /\ LET g == QueueGet(inbound)
           after == LoopAfter(0, FALSE, inbound_handlers)
       IN /\ in_msg' = MessageAfter(after, g.msg)
          /\ inbound' = g.queue
          /\ in_pc' = after.pc
          /\ in_idx' = after.idx
          /\ in_log' = Append(in_log, [ev |-> "pop", id |-> g.msg.id, handler |-> "-"])
    /\ UNCHANGED <<outbound, inbound_handlers, outbound_handlers, bus_running, outLoop,
                   pubHist, n_user, accepted_in, out_inv>>
    /\ UNCHANGED <<agentVars, subVars, cronVars, callVars>>

\* _process_inbound: wait_for times out on an empty queue (`continue`); with the flag
\* still set the loop is back in wait_for, which changes nothing
InTimeout ==
    /\ in_pc = "wait"
    /\ inbound = <<>>
    /\ ~bus_running
    /\ in_pc' = "stopped"
    /\ UNCHANGED <<inbound, outbound, inbound_handlers, outbound_handlers, bus_running,
                   in_msg, in_idx, outLoop,
                   pubHist, n_user, accepted_in, in_log, out_inv>>
    /\ UNCHANGED <<agentVars, subVars, cronVars, callVars>>

\* _process_inbound: `await handler(message)` for a handler other than the agent
\* loop, which returns or raises
InInvoke(raised) ==
    /\ in_pc = "handle"
    /\ inbound_handlers[in_idx] # "agent"
    /\ LET after == LoopAfter(in_idx, raised, inbound_handlers)
       IN /\ in_pc' = after.pc
          /\ in_idx' = after.idx
          /\ in_msg' = MessageAfter(after, in_msg)
    /\ in_log' = in_log \o
          <<[ev |-> "begin", id |-> in_msg.id, handler |-> inbound_handlers[in_idx]],
            [ev |-> IF raised THEN "raise" ELSE "end", id |-> in_msg.id,
             handler |-> inbound_handlers[in_idx]]>>
    /\ UNCHANGED <<inbound, outbound, inbound_handlers, outbound_handlers, bus_running,
                   outLoop, pubHist, n_user, accepted_in, out_inv>>
    /\ UNCHANGED <<agentVars, subVars, cronVars, callVars>>

\* _process_outbound: wait_for(get, 1.0) returns a message
OutPop ==
    /\ out_pc = "wait"
    /\ outbound # <<>>
    /\ LET g == QueueGet(outbound)
           after == LoopAfter(0, FALSE, outbound_handlers)
       IN /\ out_msg' = MessageAfter(after, g.msg)
          /\ outbound' = g.queue
          /\ out_pc' = after.pc
          /\ out_idx' = after.idx
    /\ out_inv' = <<>>
    /\ UNCHANGED <<inbound, inbound_handlers, outbound_handlers, bus_running, inLoop,
                   pubHist, n_user, accepted_in, in_log>>
    /\ UNCHANGED <<agentVars, subVars, cronVars, callVars>>

\* _process_outbound: wait_for times out on an empty queue
OutTimeout ==
    /\ out_pc = "wait"
    /\ outbound = <<>>
    /\ ~bus_running
    /\ out_pc' = "stopped"
    /\ UNCHANGED <<inbound, outbound, inbound_handlers, outbound_handlers, bus_running,
                   inLoop, out_msg, out_idx,
                   pubHist, n_user, accepted_in, in_log, out_inv>>
    /\ UNCHANGED <<agentVars, subVars, cronVars, callVars>>

\* _process_outbound: `await handler(message)` for the next handler, which returns or
\* raises (a channel's send may fail)
OutInvoke(raised) ==
    /\ out_pc = "handle"
    /\ LET after == LoopAfter(out_idx, raised, outbound_handlers)
       IN /\ out_pc' = after.pc
          /\ out_idx' = after.idx
          /\ out_msg' = MessageAfter(after, out_msg)
    /\ out_inv' = Append(out_inv, [handler |-> outbound_handlers[out_idx],
                                   raised |-> raised])
    /\ UNCHANGED <<inbound, outbound, inbound_handlers, outbound_handlers, bus_running,
                   inLoop, pubHist, n_user, accepted_in, in_log>>
    /\ UNCHANGED <<agentVars, subVars, cronVars, callVars>>

(***************************************************************************)
(* SessionManager (session/manager.py)                                     *)
(***************************************************************************)
\* _session_path: key.replace(":", "_").replace("/", "_") + ".jsonl"
session_path(key) ==
    [i \in 1..Len(key) |-> IF key[i] \in {":", "/"} THEN "_" ELSE key[i]] \o <<".jsonl">>

Paths == {session_path(k) : k \in Keys}

\* Python's None as the value of a text field
NoneText == <<"None">>

\* a JSON string body written with no escaping at all
RECURSIVE EscapeNothing(_)
EscapeNothing(t) == IF t = <<>> THEN <<>> ELSE <<Head(t)>> \o EscapeNothing(Tail(t))

\* json.dumps of a str, the body between the quotes: backslash, quote and newline
\* are written as two-character escapes
RECURSIVE Escape(_)
Escape(t) ==
    IF t = <<>> THEN <<>>
    ELSE (CASE Head(t) = "\\" -> <<"\\", "\\">>
            [] Head(t) = "\"" -> <<"\\", "\"">>
            [] Head(t) = "\n" -> <<"\\", "n">>
            [] OTHER -> <<Head(t)>>) \o Escape(Tail(t))

\* json.loads of a string body: a backslash and the character after it are one
\* character
RECURSIVE Unescape(_)
Unescape(t) ==
    IF t = <<>> THEN <<>>
    ELSE IF Head(t) = "\\" /\ Len(t) >= 2
         THEN <<IF t[2] = "n" THEN "\n" ELSE t[2]>> \o Unescape(Tail(Tail(t)))
         ELSE <<Head(t)>> \o Unescape(Tail(t))

JsonNull == <<"n", "u", "l", "l">>

\* json.dumps of a text field: null for None, else the quoted, escaped string
json_dumps_text(t) ==
    IF t = NoneText THEN JsonNull ELSE <<"\"">> \o Escape(t) \o <<"\"">>

\* json.loads of a text field
json_loads_text(j) ==
    IF j = JsonNull THEN NoneText ELSE Unescape(SubSeq(j, 2, Len(j) - 1))

\* json.dumps(msg): every field of the dict that holds text is written as JSON text
json_dumps(msg) == [msg EXCEPT !.content = json_dumps_text(@)]

\* json.loads(line)
json_loads(line) == [line EXCEPT !.content = json_loads_text(@)]

\* the metadata header line save writes first
MetadataLine(key) == [_type |-> "metadata", key |-> key]

\* the lines save writes: the header, then one line per message
FileLines(key, msgs) ==
    <<MetadataLine(key)>> \o [i \in 1..Len(msgs) |-> json_dumps(msgs[i])]

\* _load_session: line 0 is the header when its _type is "metadata"
IsHeader(n, line) == n = 1 /\ "_type" \in DOMAIN line /\ line._type = "metadata"

\* _load_session: the lines that are messages, each with its line number
load_session(lines) ==
    SelectSeq([i \in 1..Len(lines) |-> [n |-> i, data |-> lines[i]]],
              LAMBDA e : ~IsHeader(e.n, e.data))

\* _load_session: the messages, json.loads of every line but the header
LoadedMessages(lines) ==
    LET kept == load_session(lines)
    IN [i \in 1..Len(kept) |-> IF "content" \in DOMAIN kept[i].data
                               THEN json_loads(kept[i].data) ELSE kept[i].data]

\* get_or_create: the cache afterwards (cached, else loaded from disk, else new)
get_or_create(c, d, key) ==
    IF c[key].present THEN c
    ELSE IF d[session_path(key)].present
         THEN [c EXCEPT ![key] = Session(LoadedMessages(d[session_path(key)].lines))]
         ELSE [c EXCEPT ![key] = Session(<<>>)]

\* a save that cuts one message more than the limit asks for
save_trim_short(msgs) ==
    IF Len(msgs) > MAX_MESSAGES
    THEN SubSeq(msgs, Len(msgs) - MAX_MESSAGES + 2, Len(msgs))
    ELSE msgs

\* save: the messages kept when the session is longer than MAX_MESSAGES
save_trim(msgs) ==
    IF Len(msgs) > MAX_MESSAGES
    THEN SubSeq(msgs, Len(msgs) - MAX_MESSAGES + 1, Len(msgs))
    ELSE msgs

\* a save that trims what it writes and leaves session.messages as it is
save_cache_untrimmed(c, key) == c

\* save: the cache afterwards (session.messages is truncated in place)
save_cache(c, key) == [c EXCEPT ![key] = Session(save_trim(c[key].messages))]

\* save: the files afterwards (temp file written, then renamed over the path)
save_disk(c, d, key) ==
    [d EXCEPT ![session_path(key)] = File(FileLines(key, save_trim(c[key].messages)))]

\* the cache of a SessionManager just constructed
EmptyCache == [k \in Keys |-> NoSession]

\* delete: cache entry dropped, file unlinked
delete_cache(c, key) == [c EXCEPT ![key] = NoSession]
\* a delete that leaves the file where it is
delete_disk_kept(d, key) == d
delete_disk(d, key) == [d EXCEPT ![session_path(key)] = NoFile]

(***************************************************************************)
(* MemoryManager (agent/memory.py): MEMORY.md and HISTORY.md               *)
(***************************************************************************)
\* a text file, present or absent
NoTextFile == [present |-> FALSE, text |-> <<>>]
TextFile(text) == [present |-> TRUE, text |-> text]

\* HISTORY.md, present or absent: the blocks written to it, in file order
NoHistory == [present |-> FALSE, blocks |-> <<>>]
History(blocks) == [present |-> TRUE, blocks |-> blocks]

\* the templates initialize() writes
MemoryTemplate == <<"# Long-Term Memory">>
HistoryHeader == [ts |-> -1, text |-> <<"# Conversation History">>]

\* a block "\n[timestamp] entry\n" of the event log
HistoryBlock(ts, entry) == [ts |-> ts, text |-> entry]

\* open(history_path, "a").write(block): creates the file when it is missing
append_block(h, block) == History(Append(h.blocks, block))

\* an initialize() that writes the header over whatever is there
initialize_history_always(h) == History(<<HistoryHeader>>)

\* initialize(): the header is written only when HISTORY.md does not exist
initialize_history(h) == IF h.present THEN h ELSE History(<<HistoryHeader>>)

\* initialize(): the template is written only when MEMORY.md does not exist
initialize_memory(m) == IF m.present THEN m ELSE TextFile(MemoryTemplate)

\* write_long_term: full overwrite with content.strip() + "\n"
write_long_term(content) == TextFile(Strip(content) \o <<"\n">>)

\* append_history: one block, stamped with the current time, entry.strip()
append_history(h, entry, t) == append_block(h, HistoryBlock(t, Strip(entry)))

(***************************************************************************)
(* AgentLoop (agent/loop.py)                                               *)
(***************************************************************************)
\* fixed texts, each one token
TxtStart == <<"Hello! I'm joshbot, your personal AI assistant.">>
TxtNewSession == <<"Started a new conversation.">>
TxtHelp == <<"Available commands:">>
TxtStillWorking == <<"I've been working on this for a while.">>
TxtReflect == <<"[System: Reflect on the tool results and decide your next action.]">>
TxtSystemPrompt == <<"system prompt">>
TxtModel == <<"arcee-ai/trinity-large-preview:free">>
TxtOk == <<"o", "k">>
TxtEmpty == <<>>
ErrProvider == <<"provider failure">>
TxtToolResult == <<"tool result">>

\* the /status text
StatusText(nTools, nMsgs) ==
    <<"Status: Model: ">> \o TxtModel \o <<" Tools: ", ToString(nTools),
      " Session messages: ", ToString(nMsgs),
      " Memory window: ", ToString(memory_window)>>

\* the reply to a failed turn
ErrorText(e) == <<"Sorry, I encountered an error: ">> \o e

\* the tools main.py registers, in order
BuiltTools == <<"read_file", "message", "spawn", "cron">>

IsRegistered(name) == \E i \in 1..Len(tools) : tools[i] = name

\* _handle_command: the canned response, or NoneText for an unknown command
handle_command_response(m, cacheAfter) ==
    LET cmd == Lower(Strip(m.content))
    IN IF cmd = <<"/", "s", "t", "a", "r", "t">> THEN TxtStart
       ELSE IF cmd = <<"/", "n", "e", "w">> THEN TxtNewSession
       ELSE IF cmd = <<"/", "h", "e", "l", "p">> THEN TxtHelp
       ELSE IF cmd = <<"/", "s", "t", "a", "t", "u", "s">>
            THEN StatusText(Len(tools), Len(cacheAfter[session_key(m)].messages))
       ELSE NoneText

\* _handle_command: the session cache afterwards (/new deletes, /status loads)
handle_command_cache(m) ==
    LET cmd == Lower(Strip(m.content))
    IN IF cmd = <<"/", "n", "e", "w">> THEN delete_cache(cache, session_key(m))
       ELSE IF cmd = <<"/", "s", "t", "a", "t", "u", "s">>
            THEN get_or_create(cache, disk, session_key(m))
       ELSE cache

\* _handle_command: the session files afterwards
handle_command_disk(m) ==
    LET cmd == Lower(Strip(m.content))
    IN IF cmd = <<"/", "n", "e", "w">> THEN delete_disk(disk, session_key(m)) ELSE disk

\* messages of the transcript
UserMsg(txt) == [role |-> "user", content |-> txt]
SystemMsg == [role |-> "system", content |-> TxtSystemPrompt]
\* an assistant message that loses its text
AssistantMsgBlank(txt) == [role |-> "assistant", content |-> <<>>]
AssistantMsg(txt) == [role |-> "assistant", content |-> txt]
AssistantToolCallsMsg(txt, tcs) ==
    [role |-> "assistant", content |-> IF txt = TxtEmpty THEN NoneText ELSE txt,
     tool_calls |-> tcs]
\* a tool message that carries the id of the round's first call
format_tool_result_first_id(id, name, result) ==
    [role |-> "tool", tool_call_id |-> "c1", name |-> name, content |-> result]
\* format_tool_result (agent/context.py)
format_tool_result(id, name, result) ==
    [role |-> "tool", tool_call_id |-> id, name |-> name, content |-> result]
ReflectMsg == [role |-> "user", content |-> TxtReflect]

\* a ToolCallRequest (providers/base.py)
ToolCallRequest(id, name) == [id |-> id, name |-> name]

\* what provider.chat may answer in _react_loop
ToolCallLists == { <<ToolCallRequest("c1", "message"), ToolCallRequest("c2", "read_file")>> }
Responses ==
    {[kind |-> "text", content |-> t, tool_calls |-> <<>>] : t \in {TxtOk, TxtEmpty}}
    \cup {[kind |-> "tools", content |-> TxtEmpty, tool_calls |-> l] : l \in ToolCallLists}
    \cup {[kind |-> "raise", content |-> TxtEmpty, tool_calls |-> <<>>]}

\* ", ".join(names)
RECURSIVE Join(_)
Join(names) ==
    IF names = <<>> THEN <<>>
    ELSE IF Len(names) = 1 THEN names
    ELSE <<Head(names), ", ">> \o Join(Tail(names))

\* ToolRegistry.execute, line 49: the text for a name that is not registered
UnknownToolText(registry, name) ==
    <<"Error: Unknown tool '", name, "'. Available tools: ">> \o Join(registry)

\* ToolRegistry.execute, line 57: the text for an exception of class kind
ToolErrorText(name, kind, message) ==
    <<"Tool '", name, "' error: ", kind, ": ">> \o message

\* what a tool's own execute returns when it returns
ToolOutput(name) == IF name = "message" THEN <<"Message sent to ">> ELSE TxtToolResult

\* "required" of each tool's schema, in order (tools/*.py)
Required(name) ==
    CASE name = "read_file" -> <<"path">>
      [] name = "message" -> <<"channel", "channel_id", "content">>
      [] name = "spawn" -> <<"task">>
      [] name = "cron" -> <<"action">>
      [] OTHER -> <<>>

\* the names under "properties" of each tool's schema
Properties(name) ==
    CASE name = "read_file" -> {"path", "offset", "limit"}
      [] name = "message" -> {"channel", "channel_id", "content"}
      [] name = "spawn" -> {"task", "context"}
      [] name = "cron" -> {"action", "name", "schedule", "message", "channel",
                           "channel_id", "job_id"}
      [] OTHER -> {}

\* a validation that checks nothing and filters nothing
validate_nothing(name, args) == [exc |-> "-", message |-> <<>>, params |-> args]

\* Tool.validate_params: the first required field missing raises ValueError, else
\* the arguments with the undeclared names filtered out
validate_params(name, args) ==
    LET missing == SelectSeq(Required(name), LAMBDA f : f \notin args)
    IN IF missing # <<>>
       THEN [exc |-> "ValueError",
             message |-> <<"Missing required parameter: ", Head(missing)>>,
             params |-> {}]
       ELSE [exc |-> "-", message |-> <<>>, params |-> args \cap Properties(name)]

\* the exception classes a tool's execute may raise, all subclasses of Exception
ExceptionKinds == {"ValueError", "RuntimeError"}

\* how a tool's own execute may end: it returns, or raises one of the classes
ToolBehaviours == {"returns"} \cup ExceptionKinds

\* an `except ValueError` in place of `except Exception`
CaughtIfValueError(kind) == kind = "ValueError"

\* `except Exception` of ToolRegistry.execute
Caught(kind) == kind \in ExceptionKinds

\* ToolRegistry.execute: whether an exception left it, the text returned, whether
\* the tool's execute was invoked and with which parameters
registry_execute(registry, name, args, behaviour) ==
    LET v == validate_params(name, args)
        exc == IF v.exc # "-" THEN v.exc
               ELSE IF behaviour # "returns" THEN behaviour ELSE "-"
        message == IF v.exc # "-" THEN v.message ELSE <<"tool failed">>
    IN IF ~\E i \in 1..Len(registry) : registry[i] = name
       THEN [raised |-> FALSE, text |-> UnknownToolText(registry, name),
             invoked |-> FALSE, params |-> {}]
       ELSE IF exc = "-"
            THEN [raised |-> FALSE, text |-> ToolOutput(name),
                  invoked |-> TRUE, params |-> v.params]
            ELSE [raised |-> ~Caught(exc),
                  text |-> IF Caught(exc) THEN ToolErrorText(name, exc, message)
                           ELSE <<>>,
                  invoked |-> v.exc = "-", params |-> v.params]

\* ToolRegistry.execute as the loops call it: the text returned for a call whose
\* arguments are complete and whose tool returns
execute_result(name) ==
    registry_execute(tools, name, Properties(name), "returns").text

\* the markers of the consolidation reply, each one token
MarkMemory == "---MEMORY_UPDATE---"
MarkHistory == "---HISTORY_ENTRY---"

\* `marker in content`
Contains(t, tok) == \E i \in 1..Len(t) : t[i] = tok

\* content.split(sep): the pieces between the occurrences of sep
RECURSIVE Split(_, _)
Split(t, sep) ==
    IF Contains(t, sep)
    THEN LET i == CHOOSE i \in 1..Len(t) : t[i] = sep /\ \A j \in 1..(i - 1) : t[j] # sep
         IN <<SubSeq(t, 1, i - 1)>> \o Split(SubSeq(t, i + 1, Len(t)), sep)
    ELSE <<t>>

\* str.replace(tok, "")
Remove(t, tok) == SelectSeq(t, LAMBDA c : c # tok)

\* what the model may answer to the consolidation prompt
ReplyBoth == <<MarkMemory, "\n", "f", "\n", MarkHistory, "\n", "e", "\n">>
ReplyNoEntry == <<MarkMemory, "\n", "f", "\n", MarkHistory, "\n">>
ReplyReversed == <<MarkHistory, "e", MarkMemory, "f">>
ReplyNoMarkers == <<"o", "k">>
ConsolidationReplies == {ReplyBoth, ReplyNoEntry, ReplyReversed, ReplyNoMarkers}

\* the outcomes of the provider call of _consolidate_memory
ConsolidationOutcomes ==
    {[raised |-> FALSE, content |-> c] : c \in ConsolidationReplies}
    \cup {[raised |-> TRUE, content |-> <<>>]}

\* _consolidate_memory, lines 272-275: whether both markers are there, and the two
\* sections cut out of the reply
consolidation_parts(content) ==
    LET parts == Split(content, MarkHistory)
    IN [both |-> Contains(content, MarkMemory) /\ Contains(content, MarkHistory),
        memory_update |-> Strip(Remove(parts[1], MarkMemory)),
        history_entry |-> IF Len(parts) > 1 THEN Strip(parts[2]) ELSE <<>>]

\* a consolidation that writes the update over what MEMORY.md held
consolidate_memory_overwrite(m, outcome) ==
    LET p == consolidation_parts(outcome.content)
    IN IF outcome.raised \/ ~p.both \/ p.memory_update = <<>> THEN m
       ELSE TextFile(p.memory_update)

\* _consolidate_memory, lines 278-294: MEMORY.md afterwards
consolidate_memory(m, outcome) ==
    LET p == consolidation_parts(outcome.content)
        existing == IF m.present THEN m.text ELSE <<>>
    IN IF outcome.raised \/ ~p.both \/ p.memory_update = <<>> THEN m
       ELSE IF existing # <<>>
            THEN TextFile(Strip(existing \o <<"\n", "\n">> \o p.memory_update))
            ELSE TextFile(p.memory_update)

\* _consolidate_memory, lines 296-304: HISTORY.md afterwards
consolidate_history(h, outcome, t) ==
    LET p == consolidation_parts(outcome.content)
    IN IF outcome.raised \/ ~p.both \/ p.history_entry = <<>> THEN h
       ELSE append_block(h, HistoryBlock(t, p.history_entry))

\* a trim that is done even when the call raised
consolidate_trim_always(msgs, outcome, cut) == SubSeq(msgs, cut + 1, Len(msgs))

\* a trim that cuts the session down to the window
consolidate_to_window(msgs, outcome, cut) ==
    IF outcome.raised \/ Len(msgs) <= memory_window THEN msgs
    ELSE SubSeq(msgs, Len(msgs) - memory_window + 1, Len(msgs))

\* a trim that keeps the oldest messages
consolidate_keep_oldest(msgs, outcome, cut) ==
    IF outcome.raised THEN msgs ELSE SubSeq(msgs, 1, Len(msgs) - cut)

\* _consolidate_memory, line 307: session.messages[cutoff:] unless the call raised
consolidate_messages(msgs, outcome, cut) ==
    IF outcome.raised THEN msgs ELSE SubSeq(msgs, cut + 1, Len(msgs))

\* the handler the inbound loop is awaiting is AgentLoop._process_message
InAgent ==
    /\ in_pc = "handle"
    /\ inbound_handlers[in_idx] = "agent"

\* _consolidate_memory: cutoff = window // 2
cutoff == memory_window \div 2

\* the _react_loop guard of the reflection prompt
ShouldReflect(iteration) == iteration < max_tool_iterations - 1

\* the reflection prompt appended to the session as well
ReflectInSessionToo == TRUE

\* the list(s) the reflection prompt is appended to: `messages` only
ReflectInSession == FALSE

\* whether _process_message consolidates before the turn
NeedsConsolidation(msgs) == Len(msgs) > memory_window

\* a loop that runs one iteration too many
LoopContinuesInclusive(iteration) == iteration <= max_tool_iterations

\* the `for iteration in range(max_iterations)` guard
LoopContinues(iteration) == iteration < max_tool_iterations

LogEv(ev) == [ev |-> ev, id |-> in_msg.id, handler |-> "agent"]

\* a response always addressed to the local terminal
ResponseTagsCli(original) == [channel |-> "cli", channel_id |-> KeyCli]

\* the channel and channel_id _send_response copies from the original message
ResponseTags(original) == [channel |-> original.channel, channel_id |-> original.channel_id]

\* _send_response: publish_outbound with the tags of the inbound message
SendResponse(sentBefore, content) ==
    LET tags == ResponseTags(in_msg)
        m == OutboundMessage(tags.channel, tags.channel_id, content)
        r == Publish(outbound, m)
    IN /\ outbound' = r.queue
       /\ n_out' = n_out + 1
       /\ out_ret' = r.ret
       /\ a_sent' = Append(sentBefore, [msg |-> m, re |-> in_msg,
                                        full |-> QueueFull(outbound), ok |-> r.ret])

\* _process_message returns to the inbound loop
HandlerReturns(logBefore) ==
    LET after == LoopAfter(in_idx, FALSE, inbound_handlers)
    IN /\ in_pc' = after.pc
       /\ in_idx' = after.idx
       /\ in_msg' = MessageAfter(after, in_msg)
       /\ in_log' = Append(logBefore, LogEv("end"))
       /\ a_pc' = "done"

\* nothing is published in this step
NoPublish == UNCHANGED <<outbound, outPub>>

\* the turn goes on: the inbound loop stays in `await handler(message)`
StaysInHandler == UNCHANGED <<in_pc, in_idx, in_msg>>

\* lines 82-105: append the user message, build the model-facing list, enter the loop
EnterLoop(c) ==
    LET key == session_key(in_msg)
        c2 == [c EXCEPT ![key].messages = Append(@, UserMsg(in_msg.content))]
    IN /\ cache' = c2
       /\ a_messages' = <<SystemMsg>> \o c2[key].messages
       /\ a_iter' = 0
       /\ a_pc' = "chat"

\* the part of the bus no step of the agent changes
busFrameAgent == <<inbound, inbound_handlers, outbound_handlers, bus_running,
                   outLoop, inPub, n_user, accepted_in, out_inv, subVars,
                   cronVars, callVars>>

\* _process_message up to its first suspension: a command is answered at once; any
\* other text loads the session and either awaits the consolidation call or enters
\* the ReAct loop
AgentBegin ==
    /\ InAgent
    /\ a_pc \in {"idle", "done"}
    /\ a_calls' = 0 /\ a_ccalls' = 0 /\ a_pending' = <<>>
    /\ LET m == in_msg
           key == session_key(m)
           isCmd == StartsWith(m.content, <<"/">>)
           cacheCmd == IF isCmd THEN handle_command_cache(m) ELSE cache
           diskCmd == IF isCmd THEN handle_command_disk(m) ELSE disk
           resp == IF isCmd THEN handle_command_response(m, cacheCmd) ELSE NoneText
           begun == Append(in_log, LogEv("begin"))
       IN IF isCmd /\ resp # NoneText
          THEN /\ cache' = cacheCmd /\ disk' = diskCmd
               /\ SendResponse(<<>>, resp)
               /\ HandlerReturns(begun)
               /\ a_messages' = <<>> /\ a_iter' = 0
          ELSE LET c1 == get_or_create(cacheCmd, diskCmd, key)
               IN /\ disk' = diskCmd
                  /\ in_log' = begun
                  /\ a_sent' = <<>>
                  /\ NoPublish /\ StaysInHandler
                  /\ IF NeedsConsolidation(c1[key].messages) /\ cutoff > 0
                     THEN /\ cache' = c1
                          /\ a_pc' = "consolidate"
                          /\ a_messages' = <<>> /\ a_iter' = 0
                     ELSE EnterLoop(c1)
    /\ UNCHANGED busFrameAgent
    /\ UNCHANGED <<tools, memVars>>

\* _consolidate_memory: the provider call returns (with or without the markers) or
\* raises; the prefix is trimmed unless it raised; then the turn goes on
AgentConsolidate(outcome) ==
    /\ InAgent
    /\ a_pc = "consolidate"
    /\ a_ccalls' = a_ccalls + 1
    /\ memory_md' = consolidate_memory(memory_md, outcome)
    /\ history_md' = consolidate_history(history_md, outcome, now)
    /\ LET key == session_key(in_msg)
           c1 == [cache EXCEPT ![key].messages = consolidate_messages(@, outcome, cutoff)]
       IN EnterLoop(c1)
    /\ NoPublish /\ StaysInHandler
    /\ UNCHANGED <<in_log, a_sent, a_calls, a_pending, disk, tools>>
    /\ UNCHANGED busFrameAgent

\* an `except Exception` of _process_message that saves the session
except_saves(c, d, key) == save_disk(c, d, key)

\* the `except Exception` of _process_message: the error text is sent, save is
\* not called
except_disk(c, d, key) == d

\* `await self._tools.execute(...)` begins: the message tool publishes its own
\* outbound message (tools/message.py), every other tool leaves the bus alone
StartTool(tc) ==
    IF tc.name = "message" /\ IsRegistered("message")
    THEN LET m == OutboundMessage("telegram", KeyTg, <<"note">>)
             p == Publish(outbound, m)
         IN /\ outbound' = p.queue
            /\ n_out' = n_out + 1
            /\ out_ret' = p.ret
    ELSE NoPublish

\* _react_loop: provider.chat answers; plain text ends the turn (session saved,
\* response sent), tool calls are recorded and the first one starts, an exception is
\* answered by the `except` of _process_message
AgentChat(r) ==
    /\ InAgent
    /\ a_pc = "chat"
    /\ a_calls' = a_calls + 1
    /\ LET key == session_key(in_msg)
       IN CASE r.kind = "raise" ->
                 /\ SendResponse(a_sent, ErrorText(ErrProvider))
                 /\ HandlerReturns(in_log)
                 /\ disk' = except_disk(cache, disk, key)
                 /\ UNCHANGED <<cache, a_messages, a_pending, a_iter>>
            [] r.kind = "text" ->
                 LET c1 == [cache EXCEPT ![key].messages = Append(@, AssistantMsg(r.content))]
                 IN /\ cache' = save_cache(c1, key)
                    /\ disk' = save_disk(c1, disk, key)
                    /\ SendResponse(a_sent, r.content)
                    /\ HandlerReturns(in_log)
                    /\ UNCHANGED <<a_messages, a_pending, a_iter>>
            [] r.kind = "tools" ->
                 LET am == AssistantToolCallsMsg(r.content, r.tool_calls)
                 IN /\ a_messages' = Append(a_messages, am)
                    /\ cache' = [cache EXCEPT ![key].messages = Append(@, am)]
                    /\ a_pending' = r.tool_calls
                    /\ a_pc' = "tools"
                    /\ StartTool(Head(r.tool_calls))
                    /\ StaysInHandler
                    /\ UNCHANGED <<disk, a_iter, a_sent, in_log>>
    /\ UNCHANGED <<a_ccalls, tools, memVars>>
    /\ UNCHANGED busFrameAgent

\* _react_loop: a tool call returns and its result is appended to both lists; then
\* the next call of the round starts, or the round ends: the reflection prompt and the
\* next iteration, or the cap (session saved, fixed text sent)
AgentToolReturn ==
    /\ InAgent
    /\ a_pc = "tools"
    /\ LET tc == Head(a_pending)
           key == session_key(in_msg)
           tm == format_tool_result(tc.id, tc.name, execute_result(tc.name))
           reflect == ShouldReflect(a_iter)
           msgs1 == Append(a_messages, tm)
           sess1 == Append(cache[key].messages, tm)
           sess2 == IF reflect /\ ReflectInSession THEN Append(sess1, ReflectMsg) ELSE sess1
       IN IF Tail(a_pending) # <<>>
          THEN /\ a_messages' = msgs1
               /\ cache' = [cache EXCEPT ![key].messages = sess1]
               /\ a_pending' = Tail(a_pending)
               /\ StartTool(Head(Tail(a_pending)))
               /\ StaysInHandler
               /\ UNCHANGED <<a_pc, a_iter, disk, a_sent, in_log>>
          ELSE /\ a_pending' = <<>>
               /\ a_messages' = IF reflect THEN Append(msgs1, ReflectMsg) ELSE msgs1
               /\ a_iter' = a_iter + 1
               /\ IF LoopContinues(a_iter + 1)
                  THEN /\ a_pc' = "chat"
                       /\ cache' = [cache EXCEPT ![key].messages = sess2]
                       /\ NoPublish /\ StaysInHandler
                       /\ UNCHANGED <<disk, a_sent, in_log>>
                  ELSE LET c1 == [cache EXCEPT ![key].messages = sess2]
                       IN /\ cache' = save_cache(c1, key)
                          /\ disk' = save_disk(c1, disk, key)
                          /\ SendResponse(a_sent, TxtStillWorking)
                          /\ HandlerReturns(in_log)
    /\ UNCHANGED <<a_calls, a_ccalls, tools, memVars>>
    /\ UNCHANGED busFrameAgent

(***************************************************************************)
(* SubagentRunner (agent/subagent.py)                                      *)
(***************************************************************************)
TxtNoOutput == <<"(no output)">>
TxtSubCap == <<"Subagent reached maximum iterations. Partial results may be available.">>
TxtSubPrompt == <<"You are a background task runner for joshbot.">>
TxtTask == <<"t", "a", "s", "k">>
TxtContext == <<"c", "t", "x">>

SubErrorText(e) == <<"Subagent error: ">> \o e

\* a runner that only keeps the spawn tool away from the subagent
IsRestrictedSpawnOnly(name) == name = "spawn"

\* `name in ("message", "spawn")`, the test of the schema filter and of both loops
\* over response.tool_calls
IsRestricted(name) == name \in {"message", "spawn"}

\* restricted_schemas: the registry's schemas without the restricted ones
RestrictedSchemas(registry) == SelectSeq(registry, LAMBDA n : ~IsRestricted(n))

\* `tools=restricted_schemas if restricted_schemas else None`
ToolsArgument(schemas) == [none |-> schemas = <<>>, schemas |-> schemas]

\* user_content: the task, and the context when there is one
SubUserContent(task, context) ==
    IF context # <<>>
    THEN <<"Task: ">> \o task \o <<"\n\nAdditional context: ">> \o context
    ELSE <<"Task: ">> \o task

\* the tool calls of a response that pass the `continue` of both loops
Permitted(tool_calls) == SelectSeq(tool_calls, LAMBDA tc : ~IsRestricted(tc.name))

\* `response.content or "(no output)"`
ContentOrNoOutput(content) == IF content = <<>> THEN TxtNoOutput ELSE content

\* the tool message run() appends for an executed call
SubToolMsg(id, name, result) ==
    [role |-> "tool", tool_call_id |-> id, name |-> name, content |-> result]

\* the assistant message run() appends: `response.content or None`, tool_calls_data
SubAssistantMsg(content, tool_calls_data) ==
    [role |-> "assistant", content |-> IF content = <<>> THEN NoneText ELSE content,
     tool_calls |-> tool_calls_data]

\* the `for iteration in range(self._max_iterations)` guard
SubLoopContinues(iteration) == iteration < sub_max_iterations

SubToolNames == {"read_file", "message", "spawn", "nope"}

\* what the model may ask for: one or two calls, of any names
SubToolCallLists ==
    {<<ToolCallRequest("c1", a)>> : a \in SubToolNames} \cup
    {<<ToolCallRequest("c1", a), ToolCallRequest("c2", b)>> :
        a \in SubToolNames, b \in {"read_file", "message"}}

\* a response whose tool call arguments json.dumps cannot serialise
SubUnserialisable ==
    {[kind |-> "unserialisable", content |-> TxtOk,
      tool_calls |-> <<ToolCallRequest("c1", a)>>] : a \in {"read_file", "message"}}

SubResponses ==
    {[kind |-> "text", content |-> TxtOk, tool_calls |-> <<>>],
     [kind |-> "text", content |-> TxtEmpty, tool_calls |-> <<>>],
     [kind |-> "raise", content |-> TxtEmpty, tool_calls |-> <<>>]} \cup
    {[kind |-> "tools", content |-> TxtEmpty, tool_calls |-> tcs] : tcs \in SubToolCallLists}
    \cup SubUnserialisable

\* what json.dumps says about arguments it cannot serialise
ErrJson == <<"Object of type set is not JSON serializable">>

\* the exceptions an iteration of run() may meet: of the provider call, of json.dumps
SubExceptionKinds == {"ProviderError", "TypeError"}

\* an `except` that knows the provider's exceptions only
SubCaughtProviderOnly(kind) == kind = "ProviderError"

\* `except Exception` of run()
SubCaught(kind) == kind \in SubExceptionKinds

\* an iteration raises: run() returns the error text, unless the exception gets out
SubFails(kind, e) ==
    IF SubCaught(kind)
    THEN sub_result' = SubErrorText(e) /\ sub_pc' = "done"
    ELSE sub_result' = <<>> /\ sub_pc' = "raised"

subFrame == <<busVars, a_pc, a_iter, a_messages, a_pending, cache, disk,
              a_calls, a_ccalls, a_sent, memVars, cronVars, callVars>>

\* run() up to its first provider.chat call
SubRun(context) ==
    /\ sub_pc \in {"idle", "done", "raised"}
    /\ sub_schemas' = RestrictedSchemas(tools)
    /\ sub_messages' = <<[role |-> "system", content |-> TxtSubPrompt],
                         UserMsg(SubUserContent(TxtTask, context))>>
    /\ sub_iter' = 0
    /\ sub_pending' = <<>>
    /\ sub_result' = <<>>
    /\ sub_offered' = <<ToolsArgument(RestrictedSchemas(tools))>>
    /\ sub_requested' = <<>>
    /\ sub_executed' = <<>>
    /\ sub_pc' = "chat"
    /\ UNCHANGED <<subFrame, tools>>

\* provider.chat answers: text (or only restricted calls) ends the run, an exception
\* ends it with the error text, permitted calls are recorded and the first one starts
SubChat(r) ==
    /\ sub_pc = "chat"
    /\ sub_requested' = [i \in 1..Len(r.tool_calls) |-> r.tool_calls[i].name]
    /\ LET permitted == Permitted(r.tool_calls)
       IN CASE r.kind = "raise" ->
                 /\ SubFails("ProviderError", ErrProvider)
                 /\ UNCHANGED <<sub_messages, sub_pending, sub_executed>>
            [] r.kind = "unserialisable" /\ permitted # <<>> ->
                 /\ SubFails("TypeError", ErrJson)
                 /\ UNCHANGED <<sub_messages, sub_pending, sub_executed>>
            [] r.kind # "raise" /\ permitted = <<>> ->
                 /\ sub_result' = ContentOrNoOutput(r.content)
                 /\ sub_pc' = "done"
                 /\ UNCHANGED <<sub_messages, sub_pending, sub_executed>>
            [] r.kind \in {"text", "tools"} /\ permitted # <<>> ->
                 /\ sub_messages' = Append(sub_messages,
                                           SubAssistantMsg(r.content, permitted))
                 /\ sub_pending' = permitted
                 /\ sub_executed' = Append(sub_executed, Head(permitted).name)
                 /\ sub_pc' = "tool"
                 /\ UNCHANGED sub_result
    /\ UNCHANGED <<sub_iter, sub_schemas, sub_offered>>
    /\ UNCHANGED <<subFrame, tools>>

\* `await self._tools.execute(...)` returns (the registry turns every failure into
\* text); the next permitted call starts, or the next iteration, or the cap
SubToolReturn ==
    /\ sub_pc = "tool"
    /\ LET tc == Head(sub_pending)
           tm == SubToolMsg(tc.id, tc.name, execute_result(tc.name))
       IN /\ sub_messages' = Append(sub_messages, tm)
          /\ sub_pending' = Tail(sub_pending)
          /\ IF Tail(sub_pending) # <<>>
             THEN /\ sub_executed' = Append(sub_executed, Head(Tail(sub_pending)).name)
                  /\ UNCHANGED <<sub_pc, sub_iter, sub_result, sub_offered>>
             ELSE /\ sub_iter' = sub_iter + 1
                  /\ UNCHANGED sub_executed
                  /\ IF SubLoopContinues(sub_iter + 1)
                     THEN /\ sub_pc' = "chat"
                          /\ sub_offered' = Append(sub_offered, ToolsArgument(sub_schemas))
                          /\ UNCHANGED sub_result
                     ELSE /\ sub_pc' = "done"
                          /\ sub_result' = TxtSubCap
                          /\ UNCHANGED sub_offered
    /\ UNCHANGED <<sub_schemas, sub_requested>>
    /\ UNCHANGED <<subFrame, tools>>

InitSub ==
    /\ sub_pc = "idle" /\ sub_iter = 0 /\ sub_schemas = <<>> /\ sub_messages = <<>>
    /\ sub_pending = <<>> /\ sub_result = <<>>
    /\ sub_offered = <<>> /\ sub_requested = <<>> /\ sub_executed = <<>>

(***************************************************************************)
(* CronService (cron/service.py) and CronTool (tools/cron.py)              *)
(***************************************************************************)
JobIds == 1..MaxJobs

Digits == {"0", "1", "2", "3", "4", "5", "6", "7", "8", "9"}

DigitValue(c) ==
    CASE c = "0" -> 0 [] c = "1" -> 1 [] c = "2" -> 2 [] c = "3" -> 3 [] c = "4" -> 4
      [] c = "5" -> 5 [] c = "6" -> 6 [] c = "7" -> 7 [] c = "8" -> 8 [] c = "9" -> 9

\* int(match.group(1))
RECURSIVE ToInt(_)
ToInt(ds) == IF ds = <<>> THEN 0
             ELSE 10 * ToInt(SubSeq(ds, 1, Len(ds) - 1)) + DigitValue(ds[Len(ds)])

\* what DELAY_PATTERN matches of s: `$` also matches before one trailing newline
DelayBody(s) == IF Len(s) > 0 /\ s[Len(s)] = "\n" THEN SubSeq(s, 1, Len(s) - 1) ELSE s

\* DELAY_PATTERN.match(s): ^(\d+)([mhd])$
DelayMatch(s) ==
    LET b == DelayBody(s)
    IN /\ Len(b) >= 2
       /\ b[Len(b)] \in {"m", "h", "d"}
       /\ \A i \in 1..(Len(b) - 1) : b[i] \in Digits

\* multipliers of _parse_delay
Multiplier(unit) == CASE unit = "m" -> 60 [] unit = "h" -> 3600 [] unit = "d" -> 86400

\* _parse_delay, for a string DELAY_PATTERN matches
ParseDelay(s) ==
    LET b == DelayBody(s)
    IN ToInt(SubSeq(b, 1, Len(b) - 1)) * Multiplier(b[Len(b)])

\* the schedules a request may carry
SchedFiveMin == <<"5", "m">>
SchedOneMin == <<"1", "m">>
SchedEveryMinute == <<"*", " ", "*", " ", "*", " ", "*", " ", "*">>
SchedBogus == <<"b", "o", "g", "u", "s">>
SchedNone == <<>>

\* croniter(schedule, ...) accepts the expression (of the schedules above only the
\* five-field one is cron syntax; for any other croniter raises)
ValidCron(s) == s = SchedEveryMinute

\* a get_next that hands back the time it was given
CronSame(s, t) == t

\* croniter(schedule, t).get_next(): the first occurrence after t; for the
\* every-minute expression this is the next full minute
CronNext(s, t) == (t \div Multiplier("m") + 1) * Multiplier("m")

\* next_run is an ISO timestamp or the text "invalid schedule"
Iso(t) == [text |-> "iso", t |-> t]
InvalidSchedule == [text |-> "invalid schedule", t |-> 0]

JobName == <<"j", "o", "b">>
JobMessage == <<"p", "i", "n", "g">>

NoJob == [present |-> FALSE]

CronJob(id, name, schedule, message, channel, channel_id, created_at, next_run, recurring) ==
    [present |-> TRUE, id |-> id, name |-> name, schedule |-> schedule,
     message |-> message, channel |-> channel, channel_id |-> channel_id,
     created_at |-> created_at, next_run |-> next_run, recurring |-> recurring]

NoTimer == [present |-> FALSE, kind |-> "-", wake |-> 0, status |-> "-"]

\* a live or finished asyncio task of _run_after / _run_cron
Timer(kind, wake, status) == [present |-> TRUE, kind |-> kind, wake |-> wake, status |-> status]

NoJobsFile == [present |-> FALSE, data |-> {}]

\* a _save_jobs that writes nothing
save_nothing(js) == jobs_file

\* _save_jobs: the whole map, rewritten
save_jobs(js) == [present |-> TRUE, data |-> {js[j] : j \in {i \in JobIds : js[i].present}}]

\* a _load_jobs that reads nothing
load_nothing(js, file) == js

\* _load_jobs: every record of the file replaces the map's entry of that id
load_jobs(js, file) ==
    [j \in JobIds |-> IF file.present /\ \E d \in file.data : d.id = j
                      THEN CHOOSE d \in file.data : d.id = j
                      ELSE js[j]]

\* the channel _execute_job gives the synthetic message
ExecuteChannel(job) == "cron"

\* _schedule_job while running: the task it creates, run up to its first sleep.
\* _run_after sleeps for the parsed delay; _run_cron sleeps until the next occurrence,
\* or ends at once in its `except Exception` when croniter rejects the schedule
schedule_job(job) ==
    IF DelayMatch(job.schedule)
    THEN Timer("after", now + ParseDelay(job.schedule), "sleeping")
    ELSE IF ValidCron(job.schedule)
         THEN Timer("cron", CronNext(job.schedule, now), "sleeping")
         ELSE Timer("cron", 0, "failed")

\* the next_run create_job computes
create_next_run(schedule) ==
    IF DelayMatch(schedule) THEN Iso(now + ParseDelay(schedule))
    ELSE IF ValidCron(schedule) THEN Iso(CronNext(schedule, now))
    ELSE InvalidSchedule

Sleeping(j) == timers[j].present /\ timers[j].status = "sleeping"

cronFrame == <<outbound, inbound_handlers, outbound_handlers, bus_running, inLoop,
               outLoop, outPub, n_user, in_log, out_inv, agentVars, subVars,
               callVars>>

\* start(): main.py calls it once per process (main.py:150, 234)
CronStart ==
    /\ ~cron_running
    /\ cron_running' = TRUE
    /\ LET loaded == load_jobs(jobs, jobs_file)
       IN /\ jobs' = loaded
          /\ timers' = [j \in JobIds |-> IF loaded[j].present
                                         THEN schedule_job(loaded[j]) ELSE timers[j]]
    /\ UNCHANGED <<jobs_file, orphans, now, next_job, fire_count, last_fired, cron_call>>
    /\ UNCHANGED <<cronFrame, inbound, inPub, accepted_in>>

\* a stop() that leaves the timer tasks running
cancel_none(ts) == ts

\* stop(): task.cancel() for every timer task, then self._timers.clear()
cancel_all(ts) == [j \in JobIds |-> NoTimer]

\* stop(): every timer task cancelled, the map of timers cleared
CronStop ==
    /\ cron_running' = FALSE
    /\ timers' = cancel_all(timers)
    /\ UNCHANGED <<jobs, jobs_file, orphans, now, next_job, fire_count, last_fired,
                   cron_call>>
    /\ UNCHANGED <<cronFrame, inbound, inPub, accepted_in>>

\* CronTool.execute(action="create", ...) and create_job
CronCreate(schedule, channel, channel_id) ==
    /\ next_job <= MaxJobs
    /\ IF schedule = SchedNone
       THEN /\ cron_call' = [action |-> "create", schedule |-> schedule,
                             result |-> "Error: schedule is required for create action"]
            /\ UNCHANGED <<jobs, jobs_file, timers, next_job>>
       ELSE LET job == CronJob(next_job, JobName, schedule, JobMessage, channel, channel_id,
                               now, create_next_run(schedule), ~DelayMatch(schedule))
                js == [jobs EXCEPT ![next_job] = job]
            IN /\ jobs' = js
               /\ jobs_file' = save_jobs(js)
               /\ timers' = IF cron_running
                            THEN [timers EXCEPT ![next_job] = schedule_job(job)]
                            ELSE timers
               /\ next_job' = next_job + 1
               /\ cron_call' = [action |-> "create", schedule |-> schedule,
                                result |-> "Scheduled"]
    /\ UNCHANGED <<cron_running, orphans, now, fire_count, last_fired>>
    /\ UNCHANGED <<cronFrame, inbound, inPub, accepted_in>>

\* a delete_job that leaves the map as it is
delete_nothing(js, id) == js

\* delete_job, the part after the timer is cancelled
delete_from(js, id) == [js EXCEPT ![id] = NoJob]

\* a delete_job that leaves the timer task alone
cancel_nothing(ts, id) == ts

\* delete_job: the timer task of the id is cancelled and dropped from the map
cancel_timer(ts, id) == [ts EXCEPT ![id] = NoTimer]

\* CronTool.execute(action="delete", job_id=id) and delete_job
CronDelete(id) ==
    /\ timers' = cancel_timer(timers, id)
    /\ IF jobs[id].present
       THEN /\ jobs' = delete_from(jobs, id)
            /\ jobs_file' = save_jobs(delete_from(jobs, id))
            /\ cron_call' = [action |-> "delete", schedule |-> SchedNone,
                             result |-> "Deleted job"]
       ELSE /\ cron_call' = [action |-> "delete", schedule |-> SchedNone,
                             result |-> "Job not found"]
            /\ UNCHANGED <<jobs, jobs_file>>
    /\ UNCHANGED <<cron_running, orphans, now, next_job, fire_count, last_fired>>
    /\ UNCHANGED <<cronFrame, inbound, inPub, accepted_in>>

\* a _run_after that keeps the job when its message was dropped
run_after_cleanup_if_published(js, id, published) ==
    IF published THEN delete_from(js, id) ELSE js

\* _run_after: _execute_job returns nothing, and delete_job follows whatever
\* publish_inbound returned
run_after_cleanup(js, id, published) == delete_from(js, id)

\* a minute passes; a timer that is due runs before the clock moves on
Tick ==
    /\ now + Multiplier("m") <= MaxTime
    /\ \A j \in JobIds : Sleeping(j) => timers[j].wake > now
    /\ \A j \in JobIds : \A i \in 1..Len(orphans[j]) : orphans[j][i].wake > now
    /\ now' = now + Multiplier("m")
    /\ UNCHANGED <<cron_running, jobs, jobs_file, timers, orphans, next_job,
                   fire_count, last_fired, cron_call>>
    /\ UNCHANGED <<cronFrame, inbound, inPub, accepted_in>>

\* the sleep of job j's timer task ends: _execute_job publishes the synthetic message;
\* then _run_after deletes the job, and _run_cron advances next_run, saves, and
\* sleeps until the next occurrence
TimerWake(j) ==
    /\ Sleeping(j)
    /\ timers[j].wake <= now
    /\ \A i \in 1..Len(orphans[j]) : orphans[j][i].wake > now
    /\ LET job == jobs[j]
           m == InboundMessage(n_in + 1, ExecuteChannel(job), job.channel_id, "cron",
                               <<"[Scheduled Task: ">> \o job.name \o <<"] ">>
                                   \o job.message)
           r == Publish(inbound, m)
       IN /\ inbound' = r.queue
          /\ in_ret' = r.ret
          /\ n_in' = n_in + 1
          /\ accepted_in' = IF r.ret THEN Append(accepted_in, m.id) ELSE accepted_in
          /\ fire_count' = [fire_count EXCEPT ![j] = @ + 1]
          /\ last_fired' = [job |-> job, msg |-> m, at |-> now, ret |-> r.ret]
          /\ IF timers[j].kind = "after"
             THEN /\ timers' = [timers EXCEPT ![j] = NoTimer]
                  /\ jobs' = run_after_cleanup(jobs, j, r.ret)
                  /\ jobs_file' = save_jobs(run_after_cleanup(jobs, j, r.ret))
             ELSE LET js == [jobs EXCEPT ![j].next_run =
                                 Iso(CronNext(job.schedule, timers[j].wake))]
                  IN /\ jobs' = js
                     /\ jobs_file' = save_jobs(js)
                     /\ timers' = [timers EXCEPT ![j] =
                                      Timer("cron", CronNext(job.schedule, now), "sleeping")]
    /\ UNCHANGED <<cron_running, orphans, now, next_job, cron_call>>
    /\ UNCHANGED cronFrame

NoFire == [job |-> NoJob, msg |-> NoMsg, at |-> 0, ret |-> FALSE]

NoCall == [action |-> "-", schedule |-> SchedNone, result |-> "-"]

InitCronService ==
    /\ cron_running = FALSE
    /\ jobs = [j \in JobIds |-> NoJob]
    /\ jobs_file = NoJobsFile
    /\ timers = [j \in JobIds |-> NoTimer]
    /\ orphans = [j \in JobIds |-> <<>>]
    /\ now = 0
    /\ next_job = 1
    /\ fire_count = [j \in JobIds |-> 0]
    /\ last_fired = NoFire

InitCron ==
    /\ InitCronService
    /\ cron_call = NoCall

(***************************************************************************)
(* Specification: the bus with the agent loop as its inbound handler       *)
(***************************************************************************)
InitBusEmpty ==
    /\ inbound = <<>> /\ outbound = <<>>
    /\ bus_running = FALSE
    /\ in_pc = "init" /\ in_msg = NoMsg /\ in_idx = 0
    /\ out_pc = "init" /\ out_msg = NoMsg /\ out_idx = 0
    /\ n_in = 0 /\ n_out = 0 /\ n_user = 0
    /\ in_ret = TRUE /\ out_ret = TRUE
    /\ accepted_in = <<>> /\ in_log = <<>> /\ out_inv = <<>>

\* no direct call has been made
NoSave == [present |-> FALSE, key |-> <<>>, before |-> <<>>]
NoExec == [name |-> "-", args |-> {}, behaviour |-> "-", registry |-> <<>>,
           result |-> [raised |-> FALSE, text |-> <<>>, invoked |-> FALSE,
                       params |-> {}]]
InitCalls == sess_saved = NoSave /\ exec_call = NoExec

\* the agent loop and the session store as constructed
InitAgentIdle ==
    /\ a_pc = "idle" /\ a_iter = 0 /\ a_messages = <<>> /\ a_pending = <<>>
    /\ cache = [k \in Keys |-> NoSession]
    /\ disk = [p \in Paths |-> NoFile]
    /\ a_calls = 0 /\ a_ccalls = 0 /\ a_sent = <<>>

\* the agent as main.py builds it: memory.initialize() has run on a fresh workspace
InitAgentBuilt ==
    /\ InitAgentIdle
    /\ memory_md = initialize_memory(NoTextFile)
    /\ history_md = initialize_history(NoHistory)
    /\ InitCalls

InitAgent ==
    /\ InitAgentBuilt
    /\ tools = BuiltTools

Init ==
    /\ InitBusEmpty
    /\ inbound_handlers = <<"agent">>
    /\ outbound_handlers = <<>>
    /\ InitAgent
    /\ InitSub
    /\ InitCron

\* what the channels publish
UserInputs ==
    {<<KeyCli, TxtHi>>, <<KeyCli, TxtNew>>, <<KeyTg, TxtOther>>, <<KeyTg, TxtStatus>>}

\* how the consolidation call of a turn may end
TurnConsolidationOutcomes ==
    {o \in ConsolidationOutcomes : o.raised \/ o.content \in {ReplyBoth, ReplyNoMarkers}}

Next ==
    \/ \E u \in UserInputs : n_user < MaxPublished /\ PublishInbound(u[1], u[2])
    \/ BusStart
    \/ InPop
    \/ OutPop
    \/ AgentBegin
    \/ \E outcome \in TurnConsolidationOutcomes : AgentConsolidate(outcome)
    \/ \E r \in Responses : AgentChat(r)
    \/ AgentToolReturn

Spec == Init /\ [][Next]_vars

(***************************************************************************)
(* Claims about the bus with the agent loop (checked under Spec)           *)
(***************************************************************************)
Min(a, b) == IF a < b THEN a ELSE b

EventsOf(log, kinds) == SelectSeq(log, LAMBDA e : e.ev \in kinds)

IsReflect(m) == m.role = "user" /\ m.content = TxtReflect

NumReflect(msgs) == Len(SelectSeq(msgs, IsReflect))

\* C1: at most one inbound message is being handled at any time: the inbound loop
\* pops a message only after the handler has finished for the previous one (every pop
\* but the first follows an end), each turn begins for the message just popped and
\* ends before anything else happens in the loop, a turn runs only inside the
\* handler call, and the messages are popped in the order they were enqueued.
C1_Serialized ==
    /\ LET pops == EventsOf(in_log, {"pop"})
       IN /\ Len(pops) <= Len(accepted_in)
          /\ \A i \in 1..Len(pops) : pops[i].id = accepted_in[i]
    /\ \A i \in 1..Len(in_log) :
          /\ in_log[i].ev = "pop" => (i = 1 \/ in_log[i - 1].ev \in {"end", "raise"})
          /\ in_log[i].ev = "begin" =>
                (i > 1 /\ in_log[i - 1].ev = "pop" /\ in_log[i - 1].id = in_log[i].id)
          /\ in_log[i].ev \in {"end", "raise"} =>
                (i > 1 /\ in_log[i - 1].ev = "begin" /\ in_log[i - 1].id = in_log[i].id)
    /\ a_pc \in {"consolidate", "chat", "tools"} =>
          (in_pc = "handle" /\ in_log[Len(in_log)] = [ev |-> "begin", id |-> in_msg.id,
                                                      handler |-> "agent"])
    /\ (in_log # <<>> /\ in_log[Len(in_log)].ev = "begin") =>
          a_pc \in {"consolidate", "chat", "tools"}

\* C1 witness: two accepted messages were handled one after the other, in the order
\* they were enqueued
C1_Witness ==
    /\ Len(EventsOf(in_log, {"end"})) = 2
    /\ in_log[1].id = 1 /\ in_log[4].id = 2
    /\ accepted_in = <<1, 2>>

\* C2 (as claimed): every handled inbound message gets exactly one response into the
\* outbound queue, tagged with its channel and conversation key
C2_ExactlyOneEnqueued ==
    a_pc = "done" =>
        /\ Len(a_sent) = 1
        /\ a_sent[1].ok
        /\ a_sent[1].msg.channel = a_sent[1].re.channel
        /\ a_sent[1].msg.channel_id = a_sent[1].re.channel_id

\* C2 (amended): every handled inbound message gets exactly one _send_response call,
\* made when the turn ends and tagged with the message's channel and conversation key;
\* that response is enqueued unless the outbound queue is full at that moment, in which
\* case it is dropped
C2_ExactlyOneSendAttempt ==
    /\ a_pc = "done" =>
          /\ Len(a_sent) = 1
          /\ a_sent[1].msg.channel = a_sent[1].re.channel
          /\ a_sent[1].msg.channel_id = a_sent[1].re.channel_id
          /\ a_sent[1].ok = ~a_sent[1].full
    /\ a_pc \in {"consolidate", "chat", "tools"} => a_sent = <<>>

\* C2 witness: a turn has ended and its only response was dropped on a full queue
C2_Witness ==
    /\ a_pc = "done"
    /\ Len(a_sent) = 1
    /\ ~a_sent[1].ok
    /\ Len(outbound) = MAX_QUEUE_SIZE

\* C3 (as claimed): no more than max_tool_iterations provider calls per inbound message
C3_AtMostMaxCalls == a_calls + a_ccalls <= max_tool_iterations

\* C3 (amended): per inbound message the ReAct loop makes at most max_tool_iterations
\* provider calls, and consolidation adds at most one more, so the turn makes at most
\* max_tool_iterations + 1 calls; without consolidation it makes at most
\* max_tool_iterations
C3_AtMostMaxLoopCalls ==
    /\ a_calls <= max_tool_iterations
    /\ a_ccalls <= 1
    /\ a_calls + a_ccalls <= max_tool_iterations + 1
    /\ a_pc = "consolidate" => (a_calls = 0 /\ a_ccalls = 0)

\* C3 witness: a turn that consolidated and then used every iteration of the loop
C3_Witness ==
    /\ a_pc = "done"
    /\ a_ccalls = 1
    /\ a_calls = max_tool_iterations

\* C4: while a turn is at iteration a_iter the model-facing list holds one reflection
\* prompt per completed round except the last allowed one, each right after that
\* round's tool results; none after a plain-text answer; and no session, cached or
\* persisted, ever holds a reflection prompt
C4_Reflection ==
    /\ a_pc \in {"chat", "tools", "done"} =>
          NumReflect(a_messages) = Min(a_iter, max_tool_iterations - 1)
    /\ (a_pc = "chat" /\ a_iter >= 1) =>
          /\ IsReflect(a_messages[Len(a_messages)])
          /\ a_messages[Len(a_messages) - 1].role = "tool"
    /\ (a_pc = "done" /\ a_iter = max_tool_iterations) =>
          a_messages[Len(a_messages)].role = "tool"
    /\ \A k \in Keys :
          /\ NumReflect(cache[k].messages) = 0
          /\ NumReflect(LoadedMessages(disk[session_path(k)].lines)) = 0

\* C4 witness: a turn ran into the cap, so every round but the last got its
\* reflection prompt, and the session was persisted with the tool results
C4_Witness ==
    /\ a_pc = "done"
    /\ a_iter = max_tool_iterations
    /\ NumReflect(a_messages) = max_tool_iterations - 1
    /\ \E k \in Keys :
          /\ disk[session_path(k)].present
          /\ \E i \in 1..Len(cache[k].messages) : cache[k].messages[i].role = "tool"

\* the turn that ended last ran into the iteration cap
EndedAtCap == a_pc = "done" /\ a_calls > 0 /\ a_iter = max_tool_iterations

\* the session of the turn that ended last, as cached and as loaded from its file
TurnKey == a_sent[1].re.channel_id
TurnSession == cache[TurnKey].messages
TurnSessionSaved == LoadedMessages(disk[session_path(TurnKey)].lines)

\* the model-facing list of the turn without the system prompt and the reflection
\* prompts: the session before the turn, the user message, and the transcript
TurnTranscript == SelectSeq(Tail(a_messages), LAMBDA m : ~IsReflect(m))

\* C14 (as claimed): a turn that reaches the cap answers with the fixed "still
\* working" text, and the session saved at its end holds the transcript of the turn
\* (user message, assistant tool-call messages, tool results) followed by that text
\* as the assistant's message
C14_CapSaved ==
    EndedAtCap =>
        /\ a_sent[1].msg.content = TxtStillWorking
        /\ disk[session_path(TurnKey)].present
        /\ TurnSessionSaved = TurnSession
        /\ TurnSession =
              save_trim(Append(TurnTranscript, AssistantMsg(TxtStillWorking)))

CommandTokens ==
    {<<"/", "s", "t", "a", "r", "t">>, <<"/", "n", "e", "w">>,
     <<"/", "h", "e", "l", "p">>, <<"/", "s", "t", "a", "t", "u", "s">>}

\* the text is a command token, whatever its case and the blanks after it
IsCommandText(txt) == txt # <<>> /\ Head(txt) = "/" /\ Lower(Strip(txt)) \in CommandTokens

\* the canned text of a command token; the /status text is tested for its parts
IsCanned(txt, response) ==
    LET cmd == Lower(Strip(txt))
    IN CASE cmd = <<"/", "s", "t", "a", "r", "t">> -> response = TxtStart
         [] cmd = <<"/", "n", "e", "w">> -> response = TxtNewSession
         [] cmd = <<"/", "h", "e", "l", "p">> -> response = TxtHelp
         [] OTHER -> /\ Head(response) = "Status: Model: "
                     /\ \E i \in 1..Len(response) :
                           SubSeq(response, i, i + Len(TxtModel) - 1) = TxtModel

\* what the store holds for a key: the cached messages, else the file's, else none
Held(c, d, key) == get_or_create(c, d, key)[key].messages

\* _process_message is entered for a command: it returns in the same step, having
\* made no model call and started no tool, with the canned text sent; no session,
\* cached or on file, has gained a message (that of a /new command is gone)
CommandStep ==
    (InAgent /\ a_pc \in {"idle", "done"} /\ in_log' # in_log
       /\ IsCommandText(in_msg.content)) =>
        /\ a_pc' = "done"
        /\ a_calls' = 0 /\ a_ccalls' = 0 /\ a_pending' = <<>> /\ a_messages' = <<>>
        /\ Len(a_sent') = 1
        /\ a_sent'[1].re = in_msg
        /\ IsCanned(in_msg.content, a_sent'[1].msg.content)
        /\ n_out' = n_out + 1
        /\ \A k \in Keys :
              Held(cache', disk', k) =
                 IF k = session_key(in_msg) /\ Lower(Strip(in_msg.content)) = <<"/", "n", "e", "w">>
                 THEN <<>> ELSE Held(cache, disk, k)
        /\ UNCHANGED <<memVars, tools>>

\* C15: a message whose text is one of the command tokens is answered with the
\* canned text and nothing else happens: no provider call, no tool execution, no
\* message appended to any session; the /status text names the configured model
C15_Commands ==
    /\ [][CommandStep]_vars
    /\ [](a_pc = "done" /\ IsCommandText(a_sent[1].re.content) =>
            a_calls = 0 /\ a_ccalls = 0 /\ a_messages = <<>>)

\* C15 witness: /status on a fresh key was answered with the status text, and the
\* session it looked up is empty
C15_Witness ==
    /\ a_pc = "done"
    /\ a_sent[1].re.content = TxtStatus
    /\ a_sent[1].msg.content = StatusText(Len(BuiltTools), 0)
    /\ a_calls = 0 /\ a_ccalls = 0
    /\ cache[KeyTg] = Session(<<>>)
    /\ ~disk[session_path(KeyTg)].present

\* the store has nothing for the key: no cache entry, no file
Absent(c, d, key) == ~c[key].present /\ ~d[session_path(key)].present

\* the text of the inbound message is the /new command
IsNew(txt) == Lower(Strip(txt)) = <<"/", "n", "e", "w">>

\* _process_message is entered for /new: when it returns, the key of the message has
\* no cache entry and no file, and get_or_create on it gives an empty session
NewStep ==
    (InAgent /\ a_pc \in {"idle", "done"} /\ in_log' # in_log /\ IsNew(in_msg.content)) =>
        LET key == session_key(in_msg)
        IN /\ ~cache'[key].present
           /\ ~disk'[session_path(key)].present
           /\ get_or_create(cache', disk', key)[key] = [present |-> TRUE, messages |-> <<>>]

\* a key the store has nothing for stays so until a turn for that key begins
AbsentUntilTurn ==
    \A key \in Keys :
        (Absent(cache, disk, key) /\ ~Absent(cache', disk', key)) =>
            /\ InAgent /\ a_pc \in {"idle", "done"}
            /\ session_key(in_msg) = key
            /\ in_log' # in_log

\* a turn for a text that is no command, on a key the store has nothing for, gives
\* the model the system prompt and the user message only
FreshTurnStep ==
    (InAgent /\ a_pc \in {"idle", "done"} /\ in_log' # in_log
       /\ ~IsCommandText(in_msg.content)
       /\ Absent(cache, disk, session_key(in_msg))) =>
        /\ a_pc' = "chat"
        /\ a_messages' = <<SystemMsg, [role |-> "user", content |-> in_msg.content]>>
        /\ cache'[session_key(in_msg)].messages =
              <<[role |-> "user", content |-> in_msg.content]>>

\* C28: after the delete of /new the key has no cache entry and no file; nothing
\* brings either back before the next turn on the key, whose get_or_create returns
\* an empty session, so that the turn starts with no earlier message
C28_NewStartsEmpty ==
    /\ [][NewStep]_vars
    /\ [][AbsentUntilTurn]_vars
    /\ [][FreshTurnStep]_vars

\* C28 witness: a turn on a key was answered with the model's text (its session
\* saved), then /new on the same key was answered; both answers are still in the
\* outbound queue, and the key has no cache entry and no file
C28_Witness ==
    /\ Len(a_sent) = 1
    /\ IsNew(a_sent[1].re.content)
    /\ Len(outbound) = 2
    /\ outbound[1] = OutboundMessage(ChannelOf(KeyCli), KeyCli, TxtOk)
    /\ outbound[2] = OutboundMessage(ChannelOf(KeyCli), KeyCli, TxtNewSession)
    /\ Absent(cache, disk, KeyCli)

\* the session of the turn in progress
TurnMessages == cache[session_key(in_msg)].messages

\* the place of the last assistant tool-call message of a list (0: there is none)
LastToolCallsAt(msgs) ==
    LET at == {i \in 1..Len(msgs) :
                  msgs[i].role = "assistant" /\ "tool_calls" \in DOMAIN msgs[i]}
    IN IF at = {} THEN 0 ELSE CHOOSE i \in at : \A j \in at : j <= i

\* what the registry returns for a call of a registered tool that returns
RegistryText(name) ==
    IF name = "message" THEN <<"Message sent to ">> ELSE <<"tool result">>

\* the tool message of call tc
ResultOf(tc) ==
    [role |-> "tool", tool_call_id |-> tc.id, name |-> tc.name,
     content |-> RegistryText(tc.name)]

\* a round in progress or just over: after its assistant tool-call message the
\* session holds the results of the calls executed so far, one per call, in the
\* order of the calls; all of them once the next model call is due
RoundShape ==
    (InAgent /\ a_calls >= 1 /\ a_pc \in {"tools", "chat"}) =>
        LET msgs == TurnMessages
            at == LastToolCallsAt(msgs)
            tcs == msgs[at].tool_calls
            have == Len(msgs) - at
        IN /\ at > 0
           /\ have <= Len(tcs)
           /\ \A i \in 1..have : msgs[at + i] = ResultOf(tcs[i])
           /\ a_pc = "tools" => have = Len(tcs) - Len(a_pending) /\ a_pending # <<>>
           /\ a_pc = "chat" => have = Len(tcs)

\* provider.chat returns tool calls: the assistant tool-call message goes to the
\* end of the session
ToolCallsStep(r) ==
    (r.kind = "tools" /\ AgentChat(r)) =>
        /\ TurnMessages' = Append(TurnMessages,
              [role |-> "assistant", content |-> <<"None">>, tool_calls |-> r.tool_calls])
        /\ a_pending' = r.tool_calls
        /\ a_calls' = a_calls + 1

\* a tool call returns: its result goes to the end of the session and no model call
\* is made in that step
ToolResultStep ==
    (InAgent /\ a_pc = "tools" /\ a_pending' # a_pending) =>
        /\ a_calls' = a_calls
        /\ a_pending' = Tail(a_pending)
        /\ a_pc' \in {"tools", "chat"} =>
              TurnMessages' = Append(TurnMessages, ResultOf(Head(a_pending)))
        /\ a_pc' = "chat" => Len(a_pending) = 1

\* C31: a response with tool calls t1..tk puts the assistant tool-call message in
\* the session, then one tool message per call, in the order of the calls, each
\* with the text the registry returned; all k are there before the next model call
C31_RoundOrder ==
    /\ []RoundShape
    /\ [][\A r \in Responses : ToolCallsStep(r)]_vars
    /\ [][ToolResultStep]_vars

\* C31 witness: the first round of a turn asked for two tools; both results are in
\* the session, in order, and the second model call is due
C31_Witness ==
    /\ InAgent /\ a_pc = "chat" /\ a_calls = 1
    /\ Len(TurnMessages) = 4
    /\ TurnMessages[2].tool_calls =
          <<[id |-> "c1", name |-> "message"], [id |-> "c2", name |-> "read_file"]>>
    /\ TurnMessages[3].tool_call_id = "c1" /\ TurnMessages[3].name = "message"
    /\ TurnMessages[4].tool_call_id = "c2" /\ TurnMessages[4].name = "read_file"

\* msgs without its first n messages
Without(msgs, n) == [i \in 1..(Len(msgs) - n) |-> msgs[i + n]]

\* a turn for a text that is no command begins: it awaits the consolidation call
\* exactly when the session it got is longer than the window
TriggerStep ==
    (InAgent /\ a_pc \in {"idle", "done"} /\ in_log' # in_log
       /\ ~IsCommandText(in_msg.content)) =>
        /\ (a_pc' = "consolidate") =
              (Len(Held(cache, disk, session_key(in_msg))) > memory_window)
        /\ a_pc' \in {"consolidate", "chat"}

\* the consolidation call of a turn ends: the session loses its first
\* memory_window \div 2 messages unless the call raised, whatever the reply; the
\* turn goes on with the user message appended and the first model call due
ConsolidateTurnStep(outcome) ==
    (a_pc = "consolidate" /\ AgentConsolidate(outcome)) =>
        LET before == TurnMessages
            kept == IF outcome.raised THEN before
                    ELSE Without(before, memory_window \div 2)
            user == [role |-> "user", content |-> in_msg.content]
        IN /\ Len(before) > memory_window
           /\ TurnMessages' = Append(kept, user)
           /\ a_pc' = "chat"
           /\ a_calls' = 0
           /\ a_messages' = <<SystemMsg>> \o Append(kept, user)
           /\ UNCHANGED <<disk, a_sent, outbound>>

\* C32: consolidation is awaited when the session is longer than the window; when
\* its model call returns, the first memory_window \div 2 messages are cut from the
\* session whether the reply has the markers or not; when it raises, the session is
\* left as it was; either way the turn goes on to the user message and the model
C32_ConsolidationTrim ==
    /\ [][TriggerStep]_vars
    /\ [][\A outcome \in TurnConsolidationOutcomes : ConsolidateTurnStep(outcome)]_vars

\* C32 witness: the consolidation call of a turn raised; the session has all its
\* earlier messages and the new user message, and the first model call is due
C32_Witness ==
    /\ InAgent /\ a_pc = "chat" /\ a_ccalls = 1 /\ a_calls = 0
    /\ Len(TurnMessages) > memory_window + 1
    /\ TurnMessages[1].role = "user"
    /\ "tool_calls" \in DOMAIN TurnMessages[2]
    /\ TurnMessages[Len(TurnMessages)] = UserMsg(in_msg.content)

\* the consolidation call of a turn returned a reply without the markers; the
\* session lost its oldest message all the same
TrimmedWithoutMarkers ==
    /\ InAgent /\ a_pc = "chat" /\ a_ccalls = 1 /\ a_calls = 0
    /\ "tool_calls" \in DOMAIN TurnMessages[1]
    /\ memory_md.text = MemoryTemplate
    /\ Len(history_md.blocks) = 1

\* the text is empty or blanks only: `not content or not content.strip()`
IsEmptyContent(t) == Strip(t) = <<>>

\* C30 (as claimed): no outbound message the response path publishes has an empty
\* or whitespace-only text
C30_NoEmptyOutbound ==
    /\ \A i \in 1..Len(a_sent) : ~IsEmptyContent(a_sent[i].msg.content)
    /\ \A i \in 1..Len(outbound) : ~IsEmptyContent(outbound[i].content)

\* a turn whose model response was an empty text ended with that text published:
\* the outbound queue holds a message with no content
EmptyPublished ==
    /\ a_pc = "done"
    /\ a_calls = 1
    /\ Len(a_sent) = 1
    /\ a_sent[1].ok
    /\ a_sent[1].msg.content = <<>>
    /\ \E i \in 1..Len(outbound) : outbound[i] = a_sent[1].msg

\* the responses of provider.chat that carry no tool calls
TextReplies == {r \in Responses : r.kind = "text"}

\* a turn for a text that is no command gets past the commands: its session gains
\* the user message, at once or after the consolidation call
UserMessageStep ==
    LET key == session_key(in_msg)
        user == UserMsg(in_msg.content)
    IN /\ (InAgent /\ a_pc \in {"idle", "done"} /\ a_pc' = "chat") =>
             cache'[key].messages = Append(Held(cache, disk, key), user)
       /\ (InAgent /\ a_pc = "consolidate" /\ a_pc' = "chat") =>
             \E kept \in {cache[key].messages,
                           SubSeq(cache[key].messages, cutoff + 1, Len(cache[key].messages))} :
                cache'[key].messages = Append(kept, user)
       /\ (InAgent /\ a_pc' = "chat" /\ a_pc # "chat" /\ a_pc # "tools") =>
             a_calls' = 0 /\ a_sent' = <<>> /\ UNCHANGED <<outbound, n_out>>

\* the first provider.chat call of a turn returns r without tool calls: the turn
\* ends with one _send_response of r's text under the tags of the inbound message,
\* and the session, cached and saved, is what it was plus the assistant message
FirstReplyStep(r) ==
    (InAgent /\ a_pc = "chat" /\ a_calls = 0 /\ AgentChat(r)) =>
        LET key == session_key(in_msg)
            sent == OutboundMessage(in_msg.channel, in_msg.channel_id, r.content)
            reply == [role |-> "assistant", content |-> r.content]
            after == save_trim(Append(cache[key].messages, reply))
        IN /\ a_pc' = "done"
           /\ a_calls' = 1
           /\ cache[key].messages[Len(cache[key].messages)] = UserMsg(in_msg.content)
           /\ a_sent = <<>> /\ Len(a_sent') = 1 /\ a_sent'[1].msg = sent
           /\ n_out' = n_out + 1
           /\ outbound' = IF QueueFull(outbound) THEN outbound ELSE Append(outbound, sent)
           /\ cache'[key].messages = after
           /\ Held(EmptyCache, disk', key) = after

\* C16: a turn for a plain text whose first model response has no tool calls sends
\* one outbound message, the model's text, and leaves the session with two new
\* messages at its tail: the user message, then the assistant message
C16_DirectReply ==
    /\ [][UserMessageStep]_vars
    /\ [][\A r \in TextReplies : FirstReplyStep(r)]_vars

\* C16 witness: "hi" on the cli key was answered by the first response, and the
\* saved session is the user message and the assistant message
C16_Witness ==
    /\ a_pc = "done"
    /\ a_calls = 1
    /\ a_sent = <<[msg |-> OutboundMessage("cli", KeyCli, TxtOk),
                   re |-> a_sent[1].re, full |-> FALSE, ok |-> TRUE]>>
    /\ a_sent[1].re.content = TxtHi
    /\ cache[KeyCli].messages = <<UserMsg(TxtHi), AssistantMsg(TxtOk)>>
    /\ Held(EmptyCache, disk, KeyCli) = <<UserMsg(TxtHi), AssistantMsg(TxtOk)>>

\* after is before without its oldest d messages, with any number appended
KeptFrom(before, after, d) ==
    /\ d <= Len(before)
    /\ Len(after) >= Len(before) - d
    /\ SubSeq(after, 1, Len(before) - d) = SubSeq(before, d + 1, Len(before))

\* the step is the consolidation call of a turn on key k returning
IsConsolidationOf(k) == InAgent /\ a_pc = "consolidate" /\ k = session_key(in_msg)

\* the step ends a turn on key k with SessionManager.save
IsSaveOf(k) ==
    /\ InAgent /\ a_pc \in {"chat", "tools"} /\ a_pc' = "done"
    /\ k = session_key(in_msg)
    /\ disk'[session_path(k)].present

\* the step is a /new command on key k
IsResetOf(k) ==
    /\ InAgent /\ a_pc \in {"idle", "done"} /\ in_log' # in_log
    /\ k = session_key(in_msg)
    /\ IsCommandText(in_msg.content)
    /\ Lower(Strip(in_msg.content)) = <<"/", "n", "e", "w">>

\* a session handed out before and after the step has its list appended to, or
\* front-trimmed by the consolidation call, and nothing else
AppendOrConsolidate(k) ==
    cache'[k].present =>
        LET before == Held(cache, disk, k)
            after == cache'[k].messages
        IN \/ KeptFrom(before, after, 0)
           \/ /\ IsConsolidationOf(k)
              /\ \E d \in {cutoff, Len(before)} : KeptFrom(before, after, d)

AppendOrTrim(k) ==
    LET before == Held(cache, disk, k)
        after == cache'[k].messages
    IN /\ cache'[k].present =>
            \/ KeptFrom(before, after, 0)
            \/ /\ IsConsolidationOf(k)
               /\ \E d \in {cutoff, Len(before)} : KeptFrom(before, after, d)
            \/ /\ IsSaveOf(k)
               /\ Len(after) = MAX_MESSAGES
               /\ \E d \in 1..Len(before) : KeptFrom(before, after, d)
               /\ Held(EmptyCache, disk', k) = after
       /\ (cache[k].present /\ ~cache'[k].present) =>
            IsResetOf(k) /\ ~disk'[session_path(k)].present

InitBus ==
    /\ InitBusEmpty
    /\ inbound_handlers = <<>>
    /\ outbound_handlers = <<>>
    /\ InitAgent
    /\ InitSub
    /\ InitCron

NextBus ==
    \/ \E k \in Keys : n_user < MaxBusPublished /\ PublishInbound(k, TxtHi)
    \/ \E k \in Keys : n_user < MaxBusPublished /\ PublishOutbound(k, TxtOk)
    \/ \E h \in Handlers : OnInbound(h)
    \/ \E h \in Handlers : OnOutbound(h)
    \/ BusStart
    \/ BusStop
    \/ InPop
    \/ InTimeout
    \/ \E raised \in BOOLEAN : InInvoke(raised)
    \/ OutPop
    \/ OutTimeout
    \/ \E raised \in BOOLEAN : OutInvoke(raised)

SpecBus == InitBus /\ [][NextBus]_vars

(***************************************************************************)
(* Claims about the bus (checked under SpecBus)                            *)
(***************************************************************************)
IsPrefix(p, q) == Len(p) <= Len(q) /\ SubSeq(q, 1, Len(p)) = p

\* what a publish call that finds queue q must leave behind and return
PublishedAsClaimed(q, qAfter, ret) ==
    IF Len(q) >= MAX_QUEUE_SIZE
    THEN ~ret /\ qAfter = q
    ELSE ret /\ Len(qAfter) = Len(q) + 1 /\ IsPrefix(q, qAfter)

\* a step that makes a publish call does what C6 says
PublishStepAsClaimed ==
    /\ n_in' # n_in =>
          /\ PublishedAsClaimed(inbound, inbound', in_ret')
          /\ in_ret' => inbound'[Len(inbound')].id = n_in'
    /\ n_out' # n_out => PublishedAsClaimed(outbound, outbound', out_ret')

\* C6: a publish on a full queue returns False and leaves the queue as it was; a
\* publish on a queue that is not full appends the message at the tail and returns
\* True; no queue ever holds more than MAX_QUEUE_SIZE messages
C6_Publish ==
    /\ [](Len(inbound) <= MAX_QUEUE_SIZE /\ Len(outbound) <= MAX_QUEUE_SIZE)
    /\ [][PublishStepAsClaimed]_vars

\* C6 witness: a publish_inbound call found the queue full and returned False
C6_Witness ==
    /\ n_in = MAX_QUEUE_SIZE + 1
    /\ ~in_ret
    /\ Len(inbound) = MAX_QUEUE_SIZE
    /\ accepted_in = [i \in 1..MAX_QUEUE_SIZE |-> i]

Names(invocations) == [i \in 1..Len(invocations) |-> invocations[i].handler]

\* the handler calls the inbound loop has completed for the message it popped last
InboundInvoked ==
    LET last == CHOOSE i \in 0..Len(in_log) :
                    /\ i > 0 => in_log[i].ev = "pop"
                    /\ \A j \in (i + 1)..Len(in_log) : in_log[j].ev # "pop"
    IN SelectSeq(SubSeq(in_log, last + 1, Len(in_log)),
                 LAMBDA e : e.ev \in {"end", "raise"})

\* a step that ends a dispatch ends it with every handler invoked, the loop going on
DispatchEndsComplete ==
    /\ (out_pc = "handle" /\ out_pc' # "handle") =>
          /\ Names(out_inv') = outbound_handlers
          /\ out_pc' = IF bus_running THEN "wait" ELSE "stopped"
    /\ (in_pc = "handle" /\ in_pc' # "handle") =>
          /\ Names(InboundInvoked') = inbound_handlers
          /\ in_pc' = IF bus_running THEN "wait" ELSE "stopped"

\* the handlers invoked so far in a dispatch are the first registered ones, in order
DispatchInOrder ==
    /\ out_pc = "handle" => Names(out_inv) = SubSeq(outbound_handlers, 1, out_idx - 1)
    /\ in_pc = "handle" =>
          Names(InboundInvoked) = SubSeq(inbound_handlers, 1, in_idx - 1)

\* C7: while a popped message is being dispatched, the handlers invoked so far are
\* the first registered ones, once each, in registration order, whether they returned
\* or raised; when the dispatch ends every registered handler has been invoked exactly
\* once in that order, and the loop is back waiting for the next message
C7_Dispatch ==
    /\ []DispatchInOrder
    /\ [][DispatchEndsComplete]_vars

\* C7 witness: the first handler raised for message 1, the second handler was invoked
\* for it all the same, and message 2 was popped afterwards
C7_Witness ==
    /\ inbound_handlers = <<"h1", "h2">>
    /\ Len(in_log) >= 6
    /\ in_log[3] = [ev |-> "raise", id |-> 1, handler |-> "h1"]
    /\ in_log[5] = [ev |-> "end", id |-> 1, handler |-> "h2"]
    /\ in_log[6] = [ev |-> "pop", id |-> 2, handler |-> "-"]

(***************************************************************************)
(* Specification: one subagent runner over any registry                    *)
(***************************************************************************)
\* the registries a runner may be given
Registries == {BuiltTools, <<"read_file">>, <<"spawn", "message">>, <<>>}

InitSubagent ==
    /\ InitBusEmpty
    /\ inbound_handlers = <<"agent">>
    /\ outbound_handlers = <<>>
    /\ InitAgentBuilt
    /\ tools \in Registries
    /\ InitSub
    /\ InitCron

NextSub ==
    \/ \E context \in {<<>>, TxtContext} : SubRun(context)
    \/ \E r \in SubResponses : SubChat(r)
    \/ SubToolReturn

SpecSub == InitSubagent /\ [][NextSub]_vars

(***************************************************************************)
(* Claims about the subagent runner (checked under SpecSub)                *)
(***************************************************************************)
NoRestrictedName(names) == \A i \in 1..Len(names) : names[i] \notin {"message", "spawn"}

\* C5: in every run, whatever the registry holds and whatever the model asks for, the
\* tool list passed to the model on each call and the names passed to the registry
\* for execution never include "message" or "spawn"
C5_Restricted ==
    /\ \A i \in 1..Len(sub_offered) : NoRestrictedName(sub_offered[i].schemas)
    /\ NoRestrictedName(sub_executed)
    /\ \A i \in 1..Len(sub_messages) :
          sub_messages[i].role = "tool" => sub_messages[i].name \notin {"message", "spawn"}

\* C5 witness: with message and spawn registered, the model asked for message and
\* read_file in one response, and only read_file was executed
C5_Witness ==
    /\ IsRegistered("message") /\ IsRegistered("spawn")
    /\ sub_requested = <<"message", "read_file">>
    /\ sub_executed = <<"read_file">>
    /\ Len(sub_offered) = 1 /\ sub_offered[1].schemas = <<"read_file", "cron">>
    /\ sub_pc = "tool"
\* the strings run() returns
IsModelText(t) == \E r \in SubResponses : r.content # <<>> /\ t = r.content
IsSubError(t) == Len(t) = 2 /\ t[1] = "Subagent error: "
IsSubCap(t) ==
    t = <<"Subagent reached maximum iterations. Partial results may be available.">>

\* provider.chat returns r or raises: a raise, or a failure of the iteration's own
\* code, ends the run with the error string; a response without a permitted tool
\* call ends it with the model's text ("(no output)" when there is none)
SubChatStep(r) ==
    SubChat(r) =>
        LET none == \A i \in 1..Len(r.tool_calls) :
                        r.tool_calls[i].name \in {"message", "spawn"}
        IN /\ r.kind = "raise" =>
                 sub_pc' = "done" /\ sub_result' = <<"Subagent error: ", "provider failure">>
           /\ (r.kind = "unserialisable" /\ ~none) =>
                 sub_pc' = "done" /\ IsSubError(sub_result')
           /\ (r.kind # "raise" /\ none) =>
                 /\ sub_pc' = "done"
                 /\ sub_result' = IF r.content = <<>> THEN <<"(no output)">> ELSE r.content
           /\ (r.kind = "tools" /\ ~none) => sub_pc' = "tool" /\ sub_result' = <<>>

\* the step that ends a run after a tool result ends it at the cap
SubCapStep ==
    (sub_pc = "tool" /\ sub_pc' = "done") =>
        /\ Len(sub_offered) = sub_max_iterations
        /\ IsSubCap(sub_result')

\* C25: run() never raises and returns a string; it makes at most sub_max_iterations
\* model calls; it returns the model's text when a response asks for no permitted
\* tool call, the error string when the model call or the iteration's own code
\* raises, and the maximum-iterations string when the cap is used up
C25_RunReturns ==
    /\ [](sub_pc \in {"idle", "chat", "tool", "done"})
    /\ [](Len(sub_offered) <= sub_max_iterations)
    /\ [](sub_pc = "done" =>
            IsModelText(sub_result) \/ sub_result = <<"(no output)">>
            \/ IsSubError(sub_result) \/ IsSubCap(sub_result))
    /\ [][\A r \in SubResponses : SubChatStep(r)]_vars
    /\ [][SubCapStep]_vars

\* C25 witness: a run made all its model calls, each answered with a tool call, and
\* returned the maximum-iterations string
C25_Witness ==
    /\ sub_pc = "done"
    /\ IsSubCap(sub_result)
    /\ Len(sub_offered) = sub_max_iterations
    /\ sub_iter = sub_max_iterations
    /\ Len(sub_executed) >= sub_max_iterations

(***************************************************************************)
(* Specification: the scheduler publishing into the inbound queue          *)
(***************************************************************************)
\* the scheduling requests made: schedule, channel, channel_id
JobRequests ==
    {<<SchedFiveMin, "telegram", KeyTg>>, <<SchedOneMin, "cli", KeyCli>>,
     <<SchedEveryMinute, "telegram", KeyTg>>, <<SchedBogus, "cli", KeyCli>>,
     <<SchedNone, "cli", KeyCli>>}

NextCron ==
    \/ CronStart
    \/ CronStop
    \/ \E q \in JobRequests : CronCreate(q[1], q[2], q[3])
    \/ \E j \in JobIds : CronDelete(j)
    \/ Tick
    \/ \E j \in JobIds : TimerWake(j)

SpecCron == Init /\ [][NextCron]_vars
\* the same with the event loop running: time passes, and a timer whose sleep is over
\* gets to run
SpecCronFair ==
    /\ SpecCron
    /\ WF_vars(Tick)
    /\ \A j \in JobIds : WF_vars(TimerWake(j))

(***************************************************************************)
(* Claims about the scheduler (checked under SpecCron and SpecCronFair)    *)
(***************************************************************************)
\* a schedule of the one-shot delay grammar, <int><unit>
DelayGrammar(s) ==
    /\ Len(s) >= 2
    /\ s[Len(s)] \in {"m", "h", "d"}
    /\ \A i \in 1..(Len(s) - 1) : s[i] \in Digits

WellFormed(s) == DelayGrammar(s) \/ ValidCron(s)

IsErrorText(t) == t \in {"Error: schedule is required for create action"}

\* C8 (as claimed): a create request with a malformed schedule is rejected with an
\* error text and changes nothing, so no job in the map or in the file has a
\* malformed schedule, no timer task exists for such a job, and the latest create
\* call with a malformed schedule returned an error text
C8_MalformedRejected ==
    /\ \A j \in JobIds : jobs[j].present => WellFormed(jobs[j].schedule)
    /\ \A d \in jobs_file.data : WellFormed(d.schedule)
    /\ \A j \in JobIds : timers[j].present =>
          (jobs[j].present /\ WellFormed(jobs[j].schedule))
    /\ (cron_call.action = "create" /\ ~WellFormed(cron_call.schedule)) =>
          IsErrorText(cron_call.result)

EndsWith(s, suffix) ==
    /\ Len(suffix) <= Len(s)
    /\ SubSeq(s, Len(s) - Len(suffix) + 1, Len(s)) = suffix

\* C9 (as claimed): the message a firing publishes has the scheduler as its sender,
\* carries the job's message, and has the job's configured channel and channel id
C9_FiredToJobChannel ==
    last_fired.job.present =>
        /\ last_fired.msg.sender_id = "cron"
        /\ EndsWith(last_fired.msg.content, last_fired.job.message)
        /\ last_fired.msg.channel = last_fired.job.channel
        /\ last_fired.msg.channel_id = last_fired.job.channel_id

OneShot(j) == jobs[j].present /\ ~jobs[j].recurring

\* the next_run of every one-shot job is its creation time plus its delay
OneShotNextRun ==
    \A j \in JobIds : OneShot(j) =>
        /\ jobs[j].next_run = Iso(jobs[j].created_at + ParseDelay(jobs[j].schedule))
        /\ jobs[j].schedule = SchedFiveMin =>
              jobs[j].next_run.t = jobs[j].created_at + 300

\* a step that fires a one-shot job fires it for the first time, not before its
\* next_run, and leaves it in neither the map nor the file nor the timers
OneShotFiresOnceAndGoes ==
    \A j \in JobIds :
        (fire_count'[j] # fire_count[j] /\ OneShot(j)) =>
            /\ fire_count[j] = 0 /\ fire_count'[j] = 1
            /\ now >= jobs[j].next_run.t
            /\ ~jobs'[j].present
            /\ jobs_file'.present /\ \A d \in jobs_file'.data : d.id # j
            /\ ~timers'[j].present

\* a one-shot job whose timer sleeps, with time left on the clock
OneShotPending(j) == OneShot(j) /\ Sleeping(j) /\ timers[j].wake <= MaxTime

\* the job has fired once, or the scheduler was stopped, or the job was deleted
\* before it fired
FiredOrCancelled(j) ==
    \/ fire_count[j] = 1
    \/ ~cron_running
    \/ (~jobs[j].present /\ fire_count[j] = 0)

\* C10: a one-shot job gets next_run = creation time + delay (300 s for "5m"); on a
\* scheduler that keeps running, unless it is deleted first, it fires, exactly once
\* and not before next_run; the step that fires it removes it from the in-memory
\* map and from the persisted jobs
C10_OneShot ==
    /\ []OneShotNextRun
    /\ [][OneShotFiresOnceAndGoes]_vars
    /\ \A j \in JobIds : OneShotPending(j) ~> FiredOrCancelled(j)

\* C10 witness: a "5m" job has fired 300 s after it was created and is gone from the
\* map and from the file
C10_Witness ==
    /\ last_fired.job.present
    /\ last_fired.job.schedule = SchedFiveMin
    /\ last_fired.at = last_fired.job.created_at + 300
    /\ fire_count[last_fired.job.id] = 1
    /\ ~jobs[last_fired.job.id].present
    /\ jobs_file.present /\ jobs_file.data = {}

\* the persisted jobs hold a record of id j
Persisted(file, j) == file.present /\ \E d \in file.data : d.id = j

\* job j was created and is in the map no more
Gone(j) == j < next_job /\ ~jobs[j].present

\* delete_job(j) returns for an existing job: no timer task of j is left, and j is
\* in neither the map nor the file
DeleteStep(j) ==
    (jobs[j].present /\ CronDelete(j)) =>
        /\ ~timers'[j].present
        /\ ~jobs'[j].present
        /\ jobs_file'.present /\ ~Persisted(jobs_file', j)
        /\ cron_call'.result = "Deleted job"
        /\ UNCHANGED <<fire_count, inbound>>

\* a job that is gone stays gone, through stop and start as well, and does not fire
StaysGone(j) ==
    Gone(j) =>
        /\ ~jobs'[j].present
        /\ ~timers'[j].present
        /\ ~Persisted(jobs_file', j)
        /\ fire_count'[j] = fire_count[j]

\* C20: when delete_job returns for an existing job its timer task is cancelled and
\* the job is in neither the job map nor the persisted jobs; from then on the job
\* never fires and never comes back, whatever is called afterwards
C20_Deleted ==
    /\ [][\A j \in JobIds : DeleteStep(j)]_vars
    /\ [][\A j \in JobIds : StaysGone(j)]_vars
    /\ [](\A j \in JobIds : Gone(j) => ~timers[j].present /\ ~Persisted(jobs_file, j))

\* C20 witness: a recurring job fired once and was then deleted; two of its
\* occurrences have gone by on the running scheduler without a further firing
C20_Witness ==
    /\ cron_running
    /\ cron_call.action = "delete" /\ cron_call.result = "Deleted job"
    /\ last_fired.job.present /\ last_fired.job.recurring
    /\ Gone(last_fired.job.id)
    /\ fire_count[last_fired.job.id] = 1
    /\ now >= last_fired.at + 2 * Multiplier("m")
    /\ jobs_file.present /\ jobs_file.data = {}

(***************************************************************************)
(* Specification: one session store, called directly and restarted         *)
(***************************************************************************)
\* a text with the characters JSON escapes
TxtEscapes == <<"a", "\\", "n", "\"", "\n">>

\* messages a turn may append to a session
SessionMessages ==
    {UserMsg(TxtEscapes),
     AssistantToolCallsMsg(TxtEmpty, <<ToolCallRequest("c1", "read_file")>>)}

sessFrame == <<busVars, a_pc, a_iter, a_messages, a_pending, tools,
               a_calls, a_ccalls, a_sent, memVars, subVars, cronVars, exec_call>>

\* a turn appends a message to the session object it got from the store: the user
\* message first, the assistant's after it
SessAppend(key, m) ==
    /\ cache[key].present
    /\ (m.role = "user") = (Len(cache[key].messages) % 2 = 0)
    /\ Len(cache[KeyCli].messages) + Len(cache[KeyTg].messages) <= MAX_MESSAGES
    /\ cache' = [cache EXCEPT ![key].messages = Append(@, m)]
    /\ UNCHANGED <<disk, sess_saved, sessFrame>>

\* get_or_create(key)
SessGetOrCreate(key) ==
    /\ cache' = get_or_create(cache, disk, key)
    /\ UNCHANGED <<disk, sess_saved, sessFrame>>

\* save(session) for the session object of key
SessSave(key) ==
    /\ cache[key].present
    /\ cache' = save_cache(cache, key)
    /\ disk' = save_disk(cache, disk, key)
    /\ sess_saved' = [present |-> TRUE, key |-> key, before |-> cache[key].messages]
    /\ UNCHANGED sessFrame

\* delete(key)
SessDelete(key) ==
    /\ cache' = delete_cache(cache, key)
    /\ disk' = delete_disk(disk, key)
    /\ sess_saved' = IF sess_saved.key = key THEN NoSave ELSE sess_saved
    /\ UNCHANGED sessFrame

\* the process ends and a new SessionManager is constructed over the same directory
SessRestart ==
    /\ cache' = EmptyCache
    /\ UNCHANGED <<disk, sess_saved, sessFrame>>

NextSession ==
    \/ \E key \in Keys, m \in SessionMessages : SessAppend(key, m)
    \/ \E key \in Keys : SessGetOrCreate(key)
    \/ \E key \in Keys : SessSave(key)
    \/ \E key \in Keys : SessDelete(key)
    \/ SessRestart

SpecSession == Init /\ [][NextSession]_vars

(***************************************************************************)
(* Claims about the session store (checked under SpecSession)              *)
(***************************************************************************)
\* the messages of the session get_or_create(key) returns on a store with cache c
GotMessages(c, d, key) == get_or_create(c, d, key)[key].messages

\* the session saved last is what a store without a cache entry loads
RoundTripFresh ==
    sess_saved.present =>
        GotMessages(EmptyCache, disk, sess_saved.key) = save_trim(sess_saved.before)

\* right after a save, get_or_create on the saving store returns the same sequence
RoundTripCached ==
    (sess_saved' # sess_saved /\ sess_saved'.present) =>
        /\ GotMessages(cache', disk', sess_saved'.key) = save_trim(sess_saved'.before)
        /\ GotMessages(EmptyCache, disk', sess_saved'.key) = save_trim(sess_saved'.before)

\* C11: after save(session), get_or_create on the same key returns the ordered
\* message sequence the session had when it was saved, less the oldest messages over
\* MAX_MESSAGES, both on the store that saved it and, for as long as the file is not
\* rewritten or deleted, on a store with no cache entry for the key
C11_RoundTrip ==
    /\ []RoundTripFresh
    /\ [][RoundTripCached]_vars

\* C11 witness: a session over the cap, holding text with escapes and a None content,
\* was saved; the store was restarted and loaded the retained messages from the file
C11_Witness ==
    /\ sess_saved.present
    /\ Len(sess_saved.before) = MAX_MESSAGES + 1
    /\ \E i, j \in 2..Len(sess_saved.before) :
          /\ sess_saved.before[i].content = TxtEscapes
          /\ sess_saved.before[j].content = NoneText
    /\ ~cache[KeyTg].present
    /\ cache[sess_saved.key] = Session(Tail(sess_saved.before))
    /\ disk[session_path(sess_saved.key)].lines[2].content # sess_saved.before[2].content

\* the last MAX_MESSAGES of msgs, all of them when there are no more than that
MostRecent(msgs) ==
    LET n == Len(msgs)
        kept == IF n > MAX_MESSAGES THEN MAX_MESSAGES ELSE n
    IN [i \in 1..kept |-> msgs[n - kept + i]]

\* save(session): what the session and its file hold when it has returned
SaveStep(key) ==
    SessSave(key) =>
        LET before == cache[key].messages
            lines == disk'[session_path(key)].lines
        IN /\ Len(cache'[key].messages) <= MAX_MESSAGES
           /\ cache'[key].messages = MostRecent(before)
           /\ disk'[session_path(key)].present
           /\ Len(lines) = 1 + Len(MostRecent(before))
           /\ lines[1] = MetadataLine(key)
           /\ \A i \in 1..Len(MostRecent(before)) :
                 lines[i + 1] = json_dumps(MostRecent(before)[i])
           /\ Len(before) <= MAX_MESSAGES =>
                 /\ cache'[key].messages = before
                 /\ Len(lines) = 1 + Len(before)

\* C27: when save returns, the session in memory and the file hold at most
\* MAX_MESSAGES messages, which are the most recent ones of the session in their
\* order; a session of MAX_MESSAGES messages or fewer is written whole
C27_SaveCap == [][\A key \in Keys : SaveStep(key)]_vars

\* C27 witness: a session one message over the cap was saved; the session object
\* and the file hold its last MAX_MESSAGES messages
C27_Witness ==
    /\ sess_saved.present
    /\ Len(sess_saved.before) = MAX_MESSAGES + 1
    /\ cache[sess_saved.key].present
    /\ Len(cache[sess_saved.key].messages) = MAX_MESSAGES
    /\ cache[sess_saved.key].messages[1] = sess_saved.before[2]
    /\ Len(disk[session_path(sess_saved.key)].lines) = MAX_MESSAGES + 1

(***************************************************************************)
(* Specification: one tool registry, called directly                       *)
(***************************************************************************)
\* names execute may be called with: tools of main.py and one there is no tool for
ToolNames == {"read_file", "message", "cron"}
CalledNames == ToolNames \cup {"nope"}

\* the argument maps of the calls, as the sets of their keys
ArgumentMaps ==
    {{}, {"path"}, {"path", "bogus"}, {"channel", "channel_id", "content"},
     {"action", "schedule"}}

toolsFrame == <<busVars, a_pc, a_iter, a_messages, a_pending, cache, disk,
                a_calls, a_ccalls, a_sent, memVars, subVars, cronVars, sess_saved>>

\* register(tool): a new key goes to the end of the dict, a known key keeps its place
ToolRegister(name) ==
    /\ tools' = IF IsRegistered(name) THEN tools ELSE Append(tools, name)
    /\ UNCHANGED <<exec_call, toolsFrame>>

\* unregister(name)
ToolUnregister(name) ==
    /\ tools' = SelectSeq(tools, LAMBDA n : n # name)
    /\ UNCHANGED <<exec_call, toolsFrame>>

\* execute(name, arguments), with the tool's own execute ending as `behaviour` says
ToolExecute(name, args, behaviour) ==
    /\ exec_call' = [name |-> name, args |-> args, behaviour |-> behaviour,
                     registry |-> tools,
                     result |-> registry_execute(tools, name, args, behaviour)]
    /\ UNCHANGED <<tools, toolsFrame>>

InitTools ==
    /\ InitBusEmpty
    /\ inbound_handlers = <<"agent">>
    /\ outbound_handlers = <<>>
    /\ InitAgentBuilt
    /\ tools = <<>>
    /\ InitSub
    /\ InitCron

NextTools ==
    \/ \E name \in ToolNames : ToolRegister(name)
    \/ \E name \in ToolNames : ToolUnregister(name)
    \/ \E name \in CalledNames, args \in ArgumentMaps, behaviour \in ToolBehaviours :
          ToolExecute(name, args, behaviour)

SpecTools == InitTools /\ [][NextTools]_vars

(***************************************************************************)
(* Claims about the tool registry (checked under SpecTools)                *)
(***************************************************************************)
\* the latest call was for a registered tool and failed in validation or in the tool
ExecFailed ==
    /\ \E i \in 1..Len(exec_call.registry) : exec_call.registry[i] = exec_call.name
    /\ \/ exec_call.behaviour # "returns"
       \/ \E i \in 1..Len(Required(exec_call.name)) :
             Required(exec_call.name)[i] \notin exec_call.args

ExecRegistered ==
    \E i \in 1..Len(exec_call.registry) : exec_call.registry[i] = exec_call.name

\* the latest call left out a parameter the tool's schema requires
ExecMissing ==
    \E i \in 1..Len(Required(exec_call.name)) :
        Required(exec_call.name)[i] \notin exec_call.args

\* C26: a call that leaves out a required parameter returns the error text naming
\* the first missing one and the tool's own execute is not invoked; in a call that
\* is complete, the tool's execute gets exactly the arguments whose names the
\* schema declares, and none of the others
C26_Validated ==
    ExecRegistered =>
        /\ ExecMissing =>
              /\ ~exec_call.result.invoked
              /\ ~exec_call.result.raised
              /\ Len(exec_call.result.text) = 7
              /\ SubSeq(exec_call.result.text, 1, 6) =
                    <<"Tool '", exec_call.name, "' error: ", "ValueError", ": ",
                      "Missing required parameter: ">>
              /\ \E i \in 1..Len(Required(exec_call.name)) :
                    /\ exec_call.result.text[7] = Required(exec_call.name)[i]
                    /\ Required(exec_call.name)[i] \notin exec_call.args
                    /\ \A j \in 1..(i - 1) :
                          Required(exec_call.name)[j] \in exec_call.args
        /\ ~ExecMissing =>
              /\ exec_call.result.invoked
              /\ exec_call.result.params =
                    {a \in exec_call.args : a \in Properties(exec_call.name)}
              /\ \A a \in exec_call.args :
                    a \notin Properties(exec_call.name) => a \notin exec_call.result.params

\* C26 witness: a registered tool was called without its required parameter and
\* with an argument it does not declare; the error text came back and its execute
\* was not invoked
C26_Witness ==
    /\ exec_call.name = "message"
    /\ ExecRegistered
    /\ exec_call.args = {"path", "bogus"}
    /\ exec_call.behaviour = "returns"
    /\ ~exec_call.result.invoked
    /\ exec_call.result.text =
          <<"Tool '", "message", "' error: ", "ValueError", ": ",
            "Missing required parameter: ", "channel">>

\* a complete call with an undeclared argument: the tool got the declared one only
C26_Dropped ==
    /\ exec_call.name = "read_file"
    /\ ExecRegistered
    /\ exec_call.args = {"path", "bogus"}
    /\ exec_call.result.invoked
    /\ exec_call.result.params = {"path"}
    /\ exec_call.result.text = TxtToolResult

(***************************************************************************)
(* Specification: turns of the agent loop on a bus that may be stopped,    *)
(* with the event loop running every call that is awaited to its end       *)
(***************************************************************************)
\* what the channels publish
TurnInputs == {<<KeyCli, TxtHi>>, <<KeyTg, TxtStatus>>}

NextTurn ==
    \/ \E u \in TurnInputs : n_user < MaxPublished /\ PublishInbound(u[1], u[2])
    \/ BusStart
    \/ BusStop
    \/ InPop
    \/ InTimeout
    \/ AgentBegin
    \/ \E outcome \in TurnConsolidationOutcomes : AgentConsolidate(outcome)
    \/ \E r \in Responses : AgentChat(r)
    \/ AgentToolReturn

SpecTurn == Init /\ [][NextTurn]_vars

\* every provider.chat call and every tool execution that is awaited returns or raises
SpecTurnFair ==
    /\ SpecTurn
    /\ WF_vars(\E outcome \in TurnConsolidationOutcomes : AgentConsolidate(outcome))
    /\ WF_vars(\E r \in Responses : AgentChat(r))
    /\ WF_vars(AgentToolReturn)

(***************************************************************************)
(* Claims about the end of a turn (checked under SpecTurnFair)             *)
(***************************************************************************)
\* a turn is under way: _process_message is suspended in a call it awaits
InTurn == a_pc \in {"consolidate", "chat", "tools"}

\* the turn that ended last entered the ReAct loop and no model call of it raised
TurnEndedNoRaise ==
    /\ a_pc = "done"
    /\ a_calls > 0
    /\ a_sent[1].msg.content # ErrorText(ErrProvider)

\* the last message of the session the ended turn was for
LastOfSession ==
    LET msgs == cache[a_sent[1].re.channel_id].messages IN msgs[Len(msgs)]

\* the turn ended on a response without tool calls, before the cap
EndedByText ==
    /\ a_iter < max_tool_iterations
    /\ LastOfSession = AssistantMsg(a_sent[1].msg.content)

\* the turn ended because the iteration counter reached the cap
EndedByCap ==
    /\ a_iter = max_tool_iterations
    /\ a_calls = max_tool_iterations
    /\ a_sent[1].msg.content = TxtStillWorking

\* a step taken during a turn leaves the turn under way or ends it with its response
\* sent; a step that stops the bus does neither
NoCancel ==
    InTurn =>
        /\ a_pc' \in {"consolidate", "chat", "tools", "done"}
        /\ a_pc' = "done" =>
              (Len(a_sent') = 1 /\ (a_calls' = a_calls + 1 \/ a_iter' = a_iter + 1))
        /\ bus_running' # bus_running => UNCHANGED <<a_pc, a_iter, a_messages, in_pc, in_msg>>

\* C13: a turn that has started reaches Done, given that every call it awaits comes
\* back; a turn none of whose model calls raised is Done either after a response with
\* no tool calls or with the iteration counter at max_tool_iterations; no step, and
\* not stopping the bus, takes a turn anywhere but on to its next step
C13_TurnEnds ==
    /\ InTurn ~> (a_pc = "done")
    /\ [](TurnEndedNoRaise => (EndedByText \/ EndedByCap))
    /\ [][NoCancel]_vars

\* C13 witness: the bus was stopped while a turn was under way, and the turn went on
\* to the cap and ended there
C13_Witness ==
    /\ a_pc = "done"
    /\ EndedByCap
    /\ ~bus_running
    /\ in_pc = "stopped"
    /\ in_log[Len(in_log)].ev = "end"

(***************************************************************************)
(* Specification: the memory files and one session under direct calls of   *)
(* initialize, append_history and _consolidate_memory                      *)
(***************************************************************************)
\* the most blocks HISTORY.md gets, and the most characters MEMORY.md gets
MaxBlocks == 3
MaxMemoryLen == 8
\* the clock of these calls stops at this many seconds
MaxMemTime == 60

\* values of agents.defaults.memory_window the calls are made with
Windows == {2, 3, 4}

\* the texts of the messages a session gets, in the order it gets them
Numbered == <<"m1", "m2", "m3", "m4", "m5", "m6">>

NumberOf(msg) == CHOOSE i \in 1..Len(Numbered) : msg.content = <<Numbered[i]>>

\* the i-th message of the conversation: the user's, then the assistant's, in turn
NumberedMsg(i) ==
    IF i % 2 = 1 THEN UserMsg(<<Numbered[i]>>) ELSE AssistantMsg(<<Numbered[i]>>)

\* entries handed to append_history
HistoryEntries == {<<" ", "e", "2", "\n">>}

memFrame == <<busVars, a_pc, a_iter, a_messages, a_pending, tools, disk,
              a_calls, a_ccalls, a_sent, subVars, callVars,
              cron_running, jobs, jobs_file, timers, orphans, next_job,
              fire_count, last_fired, cron_call>>

\* MemoryManager.initialize()
MemInitialize ==
    /\ memory_md' = initialize_memory(memory_md)
    /\ history_md' = initialize_history(history_md)
    /\ UNCHANGED <<cache, now, memFrame>>

\* MemoryManager.append_history(entry)
MemAppendHistory(entry) ==
    /\ Len(history_md.blocks) < MaxBlocks
    /\ history_md' = append_history(history_md, entry, now)
    /\ UNCHANGED <<memory_md, cache, now, memFrame>>

\* the store hands out the session of the cli key
MemGetOrCreate ==
    /\ cache' = get_or_create(cache, disk, KeyCli)
    /\ UNCHANGED <<memVars, now, memFrame>>

\* a turn appends the next message of the conversation to the session
MemAppendMessage ==
    /\ cache[KeyCli].present
    /\ LET msgs == cache[KeyCli].messages
           next == IF msgs = <<>> THEN 1 ELSE NumberOf(msgs[Len(msgs)]) + 1
       IN /\ next <= Len(Numbered)
          /\ Len(msgs) < MAX_MESSAGES
          /\ cache' = [cache EXCEPT ![KeyCli].messages = Append(@, NumberedMsg(next))]
    /\ UNCHANGED <<memVars, now, memFrame>>

\* _consolidate_memory(session) under memory_window = window, the provider call
\* ending as outcome says; nothing happens when there are no old messages
MemConsolidate(window, outcome) ==
    /\ cache[KeyCli].present
    /\ Len(history_md.blocks) < MaxBlocks
    /\ Len(memory_md.text) < MaxMemoryLen
    /\ LET msgs == cache[KeyCli].messages
           cut == window \div 2
       IN IF msgs = <<>> \/ cut = 0
          THEN UNCHANGED <<memVars, cache>>
          ELSE /\ memory_md' = consolidate_memory(memory_md, outcome)
               /\ history_md' = consolidate_history(history_md, outcome, now)
               /\ cache' = [cache EXCEPT ![KeyCli].messages =
                                            consolidate_messages(@, outcome, cut)]
    /\ UNCHANGED <<now, memFrame>>

\* the clock moves on
MemTick ==
    /\ now + Multiplier("m") <= MaxMemTime
    /\ now' = now + Multiplier("m")
    /\ UNCHANGED <<memVars, cache, memFrame>>

\* a workspace in which initialize() has not run yet
InitMemory ==
    /\ InitBusEmpty
    /\ inbound_handlers = <<"agent">>
    /\ outbound_handlers = <<>>
    /\ InitAgentIdle
    /\ memory_md = NoTextFile
    /\ history_md = NoHistory
    /\ InitCalls
    /\ tools = BuiltTools
    /\ InitSub
    /\ InitCron

NextMemory ==
    \/ MemInitialize
    \/ \E entry \in HistoryEntries : MemAppendHistory(entry)
    \/ MemGetOrCreate
    \/ MemAppendMessage
    \/ \E window \in Windows, outcome \in ConsolidationOutcomes :
          MemConsolidate(window, outcome)
    \/ MemTick

SpecMemory == InitMemory /\ [][NextMemory]_vars

(***************************************************************************)
(* Claims about consolidation and the event log (checked under SpecMemory) *)
(***************************************************************************)
\* the reply has both markers and a history entry that is not blank
WellFormedReply(outcome) ==
    /\ ~outcome.raised
    /\ consolidation_parts(outcome.content).both
    /\ consolidation_parts(outcome.content).history_entry # <<>>

\* a _consolidate_memory call on a session with as many messages as the window
ConsolidationStep(window, outcome) ==
    LET msgs == cache[KeyCli].messages
        n == window \div 2
    IN (Len(msgs) = window /\ MemConsolidate(window, outcome)) =>
         /\ ~outcome.raised =>
               /\ cache'[KeyCli].messages = SubSeq(msgs, n + 1, Len(msgs))
               /\ \A i \in 1..(Len(msgs) - n) : cache'[KeyCli].messages[i] = msgs[n + i]
               /\ window % 2 = 0 => Len(cache'[KeyCli].messages) = n
         /\ outcome.raised => UNCHANGED <<cache, memVars>>
         /\ WellFormedReply(outcome) =>
               /\ Len(history_md'.blocks) = Len(history_md.blocks) + 1
               /\ SubSeq(history_md'.blocks, 1, Len(history_md.blocks)) = history_md.blocks
               /\ history_md'.blocks[Len(history_md'.blocks)].ts = now
               /\ history_md'.blocks[Len(history_md'.blocks)].text # <<>>
               /\ history_md'.present
         /\ ~WellFormedReply(outcome) => UNCHANGED history_md

\* the reply of the call has both markers
HasBothMarkers(outcome) ==
    /\ ~outcome.raised
    /\ \E i \in 1..Len(outcome.content) : outcome.content[i] = "---MEMORY_UPDATE---"
    /\ \E i \in 1..Len(outcome.content) : outcome.content[i] = "---HISTORY_ENTRY---"

\* what MEMORY.md held, nothing when there was no file
PriorFacts == IF memory_md.present THEN memory_md.text ELSE <<>>

\* a _consolidate_memory call that gets as far as its provider call: without both
\* markers the two files are left alone; with both, MEMORY.md is what it was, or
\* what it was followed by a blank line and text of the reply, and HISTORY.md is
\* what it was, or what it was followed by one block of text of the reply
MemoryMergeStep(window, outcome) ==
    (cache[KeyCli].messages # <<>> /\ MemConsolidate(window, outcome)) =>
        /\ ~HasBothMarkers(outcome) => UNCHANGED <<memory_md, history_md>>
        /\ HasBothMarkers(outcome) =>
              /\ \/ memory_md' = memory_md
                 \/ /\ memory_md'.present
                    /\ Len(memory_md'.text) > Len(PriorFacts)
                    /\ SubSeq(memory_md'.text, 1, Len(PriorFacts)) = PriorFacts
              /\ \/ history_md' = history_md
                 \/ /\ history_md'.present
                    /\ Len(history_md'.blocks) = Len(history_md.blocks) + 1
                    /\ SubSeq(history_md'.blocks, 1, Len(history_md.blocks)) =
                          history_md.blocks
        /\ outcome.content = ReplyBoth =>
              /\ memory_md'.text = IF PriorFacts = <<>> THEN <<"f">>
                                   ELSE PriorFacts \o <<"\n", "\n", "f">>
              /\ history_md'.blocks =
                    Append(history_md.blocks, [ts |-> now, text |-> <<"e">>])

C17_Consolidation ==
    [][\A window \in Windows, outcome \in ConsolidationOutcomes :
          ConsolidationStep(window, outcome)]_vars

\* C17 witness: a session of m1..m4 was consolidated under window 4: m3, m4 remain
\* and the event log holds the header and the one entry
C17_Witness ==
    /\ cache[KeyCli].present
    /\ cache[KeyCli].messages = <<NumberedMsg(3), NumberedMsg(4)>>
    /\ history_md.present
    /\ Len(history_md.blocks) = 2
    /\ history_md.blocks[1] = HistoryHeader
    /\ history_md.blocks[2].text = <<"e">>
    /\ history_md.blocks[2].ts = now
    /\ now > 0

\* HISTORY.md keeps what it had, in the same order, in front of what it has now
HistoryKept ==
    /\ history_md.present => history_md'.present
    /\ Len(history_md'.blocks) >= Len(history_md.blocks)
    /\ SubSeq(history_md'.blocks, 1, Len(history_md.blocks)) = history_md.blocks

\* C19: whatever initialize, append_history and consolidation calls are made, in
\* whatever order, the earlier content of the event log stays an unchanged prefix of
\* its later content: entries are appended, never deleted or reordered
C19_HistoryAppendOnly == [][HistoryKept]_vars

\* C19 witness: the log was initialized, then got an entry from append_history and,
\* a minute later, one from a consolidation, and initialize() has left them alone
C19_Witness ==
    /\ history_md = History(<<HistoryHeader,
                              HistoryBlock(0, <<"e", "2">>),
                              HistoryBlock(Multiplier("m"), <<"e">>)>>)
    /\ memory_md.present
    /\ Len(memory_md.text) > Len(MemoryTemplate)

\* job j is in the map with a schedule croniter accepts
Recurring(j) == jobs[j].present /\ jobs[j].recurring /\ ValidCron(jobs[j].schedule)

\* a step that fires a recurring job leaves it in the map and in the file, with a
\* next_run later than the one it had and later than the firing, the same in both
\* places, and with its task asleep until a later time
RecurringFiresAndStays ==
    \A j \in JobIds :
        (fire_count'[j] # fire_count[j] /\ Recurring(j)) =>
            /\ fire_count'[j] = fire_count[j] + 1
            /\ jobs'[j].present
            /\ jobs'[j].next_run.text = "iso"
            /\ jobs'[j].next_run.t > jobs[j].next_run.t
            /\ jobs'[j].next_run.t > now
            /\ jobs'[j] = [jobs[j] EXCEPT !.next_run = jobs'[j].next_run]
            /\ jobs_file'.present
            /\ \E d \in jobs_file'.data : d = jobs'[j]
            /\ \A d \in jobs_file'.data : d.id = j => d = jobs'[j]
            /\ timers'[j].present /\ timers'[j].status = "sleeping"
            /\ timers'[j].wake > now

\* a recurring job sleeps on a running scheduler after n firings
RecurringSleeping(j, n) ==
    /\ Recurring(j) /\ cron_running /\ Sleeping(j)
    /\ timers[j].wake <= MaxTime /\ fire_count[j] = n

\* C22: a recurring job on a running scheduler, unless it is deleted, fires again
\* and again; each firing advances next_run to a strictly later occurrence, which is
\* in jobs.json before the task sleeps again, and leaves the job in the map and in
\* the file
C22_Recurring ==
    /\ [][RecurringFiresAndStays]_vars
    /\ \A j \in JobIds : \A n \in 0..(MaxTime \div Multiplier("m")) :
          RecurringSleeping(j, n) ~>
              (fire_count[j] = n + 1 \/ ~cron_running \/ ~jobs[j].present)

\* C22 witness: an every-minute job has fired three times, a minute apart, and is
\* still in the map and in the file with the next minute as its next_run
C22_Witness ==
    /\ last_fired.job.present /\ last_fired.job.recurring
    /\ fire_count[last_fired.job.id] = 3
    /\ last_fired.at = last_fired.job.created_at + 3 * Multiplier("m")
    /\ jobs[last_fired.job.id].present
    /\ jobs[last_fired.job.id].next_run = Iso(last_fired.at + Multiplier("m"))
    /\ jobs_file.data = {jobs[last_fired.job.id]}

\* no timer task is alive
NoTimers == \A j \in JobIds : ~timers[j].present

\* stop() returns: no timer task is left, and the jobs in the map and in jobs.json
\* are what they were
StopStep ==
    (cron_running /\ ~cron_running') =>
        /\ \A j \in JobIds : ~timers'[j].present
        /\ UNCHANGED <<jobs, jobs_file, fire_count, inbound, n_in>>

\* while the scheduler stays stopped no job fires and no inbound message is published
QuietWhileStopped ==
    (~cron_running /\ ~cron_running') =>
        /\ UNCHANGED <<fire_count, last_fired, inbound, n_in>>
        /\ \A j \in JobIds : ~timers'[j].present

\* C23: when stop() has returned every timer task is cancelled, and until start() is
\* called again no job fires or publishes an inbound message; stop() does not touch
\* the persisted jobs
C23_Stopped ==
    /\ [](~cron_running => NoTimers)
    /\ [][StopStep]_vars
    /\ [][QuietWhileStopped]_vars
    /\ [][fire_count' # fire_count => cron_running]_vars

\* C23 witness: an every-minute job fired once, then the scheduler was stopped; two
\* minutes later the job is still in the map and in the file and has not fired again
C23_Witness ==
    /\ ~cron_running
    /\ NoTimers
    /\ last_fired.job.present /\ last_fired.job.recurring
    /\ fire_count[last_fired.job.id] = 1
    /\ jobs[last_fired.job.id].present
    /\ Persisted(jobs_file, last_fired.job.id)
    /\ now >= last_fired.at + 2 * Multiplier("m")
    /\ n_in = 1

(***************************************************************************)
(* The bus winding down (checked under SpecBusFair)                        *)
(***************************************************************************)
\* SpecBus with the event loop running: a pop that can return does, a wait_for
\* times out, and a handler that was called returns or raises
SpecBusFair ==
    /\ SpecBus
    /\ WF_vars(InPop) /\ WF_vars(InTimeout)
    /\ WF_vars(\E raised \in BOOLEAN : InInvoke(raised))
    /\ WF_vars(OutPop) /\ WF_vars(OutTimeout)
    /\ WF_vars(\E raised \in BOOLEAN : OutInvoke(raised))

\* stop() has been called on a bus that was started
AfterStop == ~bus_running /\ in_pc # "init"

\* both consumer loops have left `while self._running`: gather, and start(), return
StartReturned == in_pc = "stopped" /\ out_pc = "stopped"

\* what a consumer loop at pc, idx with queue q does in one step once the bus is
\* stopped: from wait_for it times out and exits, or its pop returns a message; the
\* message it holds goes to the handlers after idx, one by one; after the last one it
\* exits, without another pop; once out it stays out and its queue is only added to
WindsDown(pc, idx, msg, q, pcAfter, idxAfter, msgAfter, qAfter) ==
    /\ pc = "wait" =>
          \/ IsPrefix(q, qAfter) /\ pcAfter \in {"wait", "stopped"}
          \/ /\ q # <<>> /\ qAfter = Tail(q)
             /\ \/ pcAfter = "handle" /\ idxAfter = 1 /\ msgAfter = Head(q)
                \/ pcAfter = "stopped"
    /\ pc = "handle" =>
          /\ IsPrefix(q, qAfter)
          /\ \/ pcAfter = "handle" /\ idxAfter \in {idx, idx + 1} /\ msgAfter = msg
             \/ pcAfter = "stopped"
    /\ pc = "stopped" => pcAfter = "stopped" /\ IsPrefix(q, qAfter)

\* the flag stays down, both loops wind down, and a loop that is out handles nothing
LoopsWindDown ==
    AfterStop =>
        /\ ~bus_running'
        /\ WindsDown(in_pc, in_idx, in_msg, inbound, in_pc', in_idx', in_msg', inbound')
        /\ WindsDown(out_pc, out_idx, out_msg, outbound,
                     out_pc', out_idx', out_msg', outbound')
        /\ in_pc = "stopped" => in_log' = in_log
        /\ out_pc = "stopped" => out_inv' = out_inv

CronRestart ==
    /\ cron_running' = FALSE
    /\ jobs' = [j \in JobIds |-> NoJob]
    /\ timers' = [j \in JobIds |-> NoTimer]
    /\ orphans' = [j \in JobIds |-> <<>>]
    /\ UNCHANGED <<jobs_file, now, next_job, fire_count, last_fired, cron_call>>
    /\ UNCHANGED <<cronFrame, inbound, inPub, accepted_in>>

NextCronRuns ==
    \/ NextCron
    \/ CronRestart

SpecCronRuns == Init /\ [][NextCronRuns]_vars

\* the same with the event loop running: time passes, and a timer whose sleep is over
\* gets to run
SpecCronRunsFair ==
    /\ SpecCronRuns
    /\ WF_vars(Tick)
    /\ \A j \in JobIds : WF_vars(TimerWake(j))

(***************************************************************************)
(* Claims about the scheduler over restarts (SpecCronRuns, SpecCronRunsFair)*)
(***************************************************************************)
\* the numbers of firings a job can have had while the clock runs
FireCounts == 0..(MaxTime \div Multiplier("m"))

\* start() of a scheduler that is not running: every job of jobs.json is in the
\* map as persisted and has a timer task; for a one-shot job the task sleeps for the
\* job's delay, for a cron expression until the next occurrence
StartLoadsAll ==
    (~cron_running /\ cron_running') =>
        \A d \in jobs_file.data :
            /\ jobs'[d.id] = d
            /\ timers'[d.id].present
            /\ DelayGrammar(d.schedule) =>
                  /\ timers'[d.id].status = "sleeping"
                  /\ timers'[d.id].wake = now + ParseDelay(d.schedule)
            /\ ValidCron(d.schedule) =>
                  /\ timers'[d.id].status = "sleeping"
                  /\ timers'[d.id].wake > now
            /\ UNCHANGED jobs_file

\* job j sleeps on a running scheduler after n firings, with time left on the clock
SleepingAfter(j, n) ==
    cron_running /\ Sleeping(j) /\ timers[j].wake <= MaxTime /\ fire_count[j] = n

\* job j has fired once more, or the scheduler was stopped or the job deleted first
FiredAgainOrCancelled(j, n) ==
    fire_count[j] > n \/ ~cron_running \/ ~jobs[j].present

\* C21: start() loads every persisted job and gives each a timer task, so a job that
\* was pending when the previous run ended fires after the restart (unless the
\* scheduler is stopped or the job deleted before its sleep is over)
C21_ReloadedOnStart ==
    /\ [][StartLoadsAll]_vars
    /\ \A j \in JobIds : \A n \in FireCounts :
          SleepingAfter(j, n) ~> FiredAgainOrCancelled(j, n)

\* C21 witness: a one-shot job has fired later than the next_run it was created
\* with: it was still pending when its run ended and was rescheduled by start()
C21_Witness ==
    /\ last_fired.job.present
    /\ ~last_fired.job.recurring
    /\ last_fired.at > last_fired.job.next_run.t
    /\ fire_count[last_fired.job.id] = 1
    /\ cron_running
    /\ ~Persisted(jobs_file, last_fired.job.id)

\* the records of the jobs in the map
MapRecords(js) == {js[j] : j \in {i \in JobIds : js[i].present}}

\* jobs.json holds exactly the jobs of the map
FileIsMap(file, js) == file.present /\ file.data = MapRecords(js)

\* every job whose timer task is alive is in the map and, as it is there, in the file
LiveTimersPersisted ==
    \A j \in JobIds :
        Sleeping(j) => /\ jobs[j].present
                       /\ jobs_file.present
                       /\ jobs[j] \in jobs_file.data

\* create_job returns: the new job is in the file, and it has a timer task only
\* when the scheduler is running
CreatePersists ==
    (next_job' = next_job + 1) =>
        /\ jobs'[next_job].present
        /\ jobs_file'.present /\ jobs'[next_job] \in jobs_file'.data
        /\ timers'[next_job].present = cron_running
        /\ FileIsMap(jobs_file', jobs')

\* a step that removes a job (delete_job, the end of a one-shot job) or fires a
\* recurring job leaves the file equal to the map
RewrittenWhole ==
    /\ \A j \in JobIds : (jobs[j].present /\ CronDelete(j)) => FileIsMap(jobs_file', jobs')
    /\ fire_count' # fire_count => FileIsMap(jobs_file', jobs')

\* C34: a job with a live timer task is always in the persisted jobs; create_job
\* has written the job by the time it has a timer; after every create, every
\* delete of a job and every firing the file holds exactly the jobs of the map
C34_PersistedBeforeScheduled ==
    /\ []LiveTimersPersisted
    /\ [][CreatePersists]_vars
    /\ [][RewrittenWhole]_vars

\* C34 witness: a recurring job has fired and sleeps again; the file holds the
\* job as the map has it, with the next_run the firing gave it
C34_Witness ==
    /\ cron_running
    /\ jobs[1].present /\ jobs[1].recurring
    /\ fire_count[1] >= 1
    /\ Sleeping(1)
    /\ jobs_file = [present |-> TRUE, data |-> {jobs[1]}]
    /\ jobs[1].next_run.t > last_fired.at

(***************************************************************************)
(* A turn that raises (checked under Spec)                                 *)
(***************************************************************************)
RaiseResponse == [kind |-> "raise", content |-> TxtEmpty, tool_calls |-> <<>>]

\* provider.chat raises in the turn in progress
RaiseStep == InAgent /\ a_pc = "chat" /\ AgentChat(RaiseResponse)

\* the session ends with the turn's user message and, after it, one assistant
\* tool-call message with its tool results for every round the turn has done
KeepsTurnSoFar(msgs, rounds) ==
    LET n == Len(msgs)
        per == 1 + Len(CHOOSE l \in ToolCallLists : TRUE)
        first == n - per * rounds
    IN /\ first >= 1
       /\ msgs[first] = [role |-> "user", content |-> in_msg.content]
       /\ \A k \in 1..rounds :
             LET at == first + per * (k - 1) + 1
             IN /\ msgs[at].role = "assistant" /\ "tool_calls" \in DOMAIN msgs[at]
                /\ \A i \in 1..(per - 1) :
                      /\ msgs[at + i].role = "tool"
                      /\ msgs[at + i].tool_call_id = msgs[at].tool_calls[i].id

\* the step in which the model call raises: nothing is written, and the cached session
\* is what the turn has made of it
RaiseKeepsCache ==
    RaiseStep =>
        /\ disk' = disk
        /\ cache' = cache
        /\ KeepsTurnSoFar(cache'[session_key(in_msg)].messages, a_iter)

\* the files change only in a step that ends a turn without an exception
DiskOnlyAtGoodEnd ==
    disk' # disk => InAgent /\ a_pc' = "done" /\ ~RaiseStep

\* a turn that ends with a text of the model writes the whole cached session, the
\* messages of earlier turns that were never saved with it
TextEndPersists(r) ==
    (r.kind = "text" /\ InAgent /\ a_pc = "chat" /\ AgentChat(r)) =>
        LET key == session_key(in_msg)
            all == Append(cache[key].messages,
                          [role |-> "assistant", content |-> r.content])
            lines == disk'[session_path(key)].lines
        IN /\ disk'[session_path(key)].present
           /\ Len(lines) = 1 + Len(MostRecent(all))
           /\ \A i \in 1..Len(MostRecent(all)) : lines[i + 1] = json_dumps(MostRecent(all)[i])

\* C37: a turn that raises after the user message was appended saves nothing: the
\* session file is as before the turn, the cached session keeps the user message and
\* the tool-call and tool-result messages appended before the failure, and a later
\* turn on the key that ends well writes them
C37_RaiseNotSaved ==
    /\ [][RaiseKeepsCache]_vars
    /\ [][DiskOnlyAtGoodEnd]_vars
    /\ [][\A r \in Responses : TextEndPersists(r)]_vars

\* C37 witness: the first turn on a key raised and the second ended with a text; the
\* file holds the user message of the first turn, which has no answer, then the
\* second turn
C37_Witness ==
    /\ a_pc = "done"
    /\ Len(a_sent) = 1 /\ a_sent[1].msg.content = TxtOk
    /\ disk[session_path(KeyCli)].present
    /\ disk[session_path(KeyCli)].lines =
          <<MetadataLine(KeyCli),
            json_dumps([role |-> "user", content |-> TxtHi]),
            json_dumps([role |-> "user", content |-> TxtHi]),
            json_dumps([role |-> "assistant", content |-> TxtOk])>>

\* a turn raised after a round of tool calls: no file, and the cached session holds the
\* user message, the assistant tool-call message and both tool results
RaisedAfterTools ==
    /\ a_pc = "done"
    /\ Len(a_sent) = 1 /\ a_sent[1].msg.content = ErrorText(ErrProvider)
    /\ ~disk[session_path(KeyCli)].present
    /\ cache[KeyCli].present
    /\ Len(cache[KeyCli].messages) = 4
    /\ cache[KeyCli].messages[1] = [role |-> "user", content |-> TxtHi]
    /\ cache[KeyCli].messages[4].role = "tool"

(***************************************************************************)
(* The length of a session after consolidation (checked under Spec)        *)
(***************************************************************************)
\* the consolidation call of the turn in progress returns
ConsolidationCompletes(outcome) ==
    ~outcome.raised /\ InAgent /\ a_pc = "consolidate" /\ AgentConsolidate(outcome)

\* the session of the turn, as it is when the user message is about to be appended
BeforeUserMessage(msgs) == SubSeq(msgs, 1, Len(msgs) - 1)

\* C38 as stated: after a consolidation that completed, the session holds at most
\* memory_window messages before the user message is appended, whatever earlier
\* turns added
C38_WithinWindow ==
    [][\A outcome \in TurnConsolidationOutcomes :
          ConsolidationCompletes(outcome) =>
              Len(BeforeUserMessage(TurnMessages')) <= memory_window]_vars

\* C38 amended: after a consolidation that completed, the session holds
\* memory_window \div 2 messages fewer than when the turn began, which is at most
\* memory_window exactly when it held at most memory_window + memory_window \div 2
C38_CutByHalfWindow ==
    [][\A outcome \in TurnConsolidationOutcomes :
          ConsolidationCompletes(outcome) =>
              LET before == Len(TurnMessages)
                  after == Len(BeforeUserMessage(TurnMessages'))
              IN /\ before > memory_window
                 /\ after = before - (memory_window \div 2)
                 /\ TurnMessages'[Len(TurnMessages')] =
                        [role |-> "user", content |-> in_msg.content]
                 /\ (after <= memory_window) <=>
                        (before <= memory_window + (memory_window \div 2))]_vars

\* C38 witness: a turn with a round of tool calls left five messages; the
\* consolidation of the next turn completed and cut the oldest one, so the session holds
\* four, twice the window, before the user message
C38_Witness ==
    /\ InAgent /\ a_pc = "chat" /\ a_ccalls = 1 /\ a_calls = 0
    /\ Len(TurnMessages) = 2 * memory_window + 1
    /\ TurnMessages[1].role = "assistant" /\ "tool_calls" \in DOMAIN TurnMessages[1]
    /\ TurnMessages[2].role = "tool" /\ TurnMessages[3].role = "tool"
    /\ TurnMessages[4] = [role |-> "assistant", content |-> TxtOk]
    /\ TurnMessages[5] = [role |-> "user", content |-> in_msg.content]

(***************************************************************************)
(* Tool results and their tool calls (checked under Spec)                  *)
(***************************************************************************)
\* the message at place j is an assistant message that asks for the call with this id
AsksFor(msgs, j, id) ==
    /\ msgs[j].role = "assistant" /\ "tool_calls" \in DOMAIN msgs[j]
    /\ \E c \in 1..Len(msgs[j].tool_calls) : msgs[j].tool_calls[c].id = id

\* every tool-result message has, before it, the assistant message of its call
Paired(msgs) ==
    \A i \in 1..Len(msgs) :
        msgs[i].role = "tool" =>
            \E j \in 1..(i - 1) : AsksFor(msgs, j, msgs[i].tool_call_id)

\* no turn is in progress
BetweenTurns == a_pc \in {"idle", "done"}

\* C39: between turns every tool-result message of a session is preceded by the
\* assistant message whose tool_calls has its id; neither the front-trim of
\* consolidation nor the truncation of save leaves a tool result without it
C39_ToolResultsPaired ==
    BetweenTurns => \A k \in Keys : cache[k].present => Paired(cache[k].messages)

\* s is the beginning of t
IsPrefixOf(s, t) == Len(s) <= Len(t) /\ SubSeq(t, 1, Len(s)) = s

\* appending alone never separates a tool result from its call
PairedWhileAppending ==
    [][\A k \in Keys :
          (cache[k].present /\ cache'[k].present /\ Paired(cache[k].messages)
             /\ IsPrefixOf(cache[k].messages, cache'[k].messages))
          => Paired(cache'[k].messages)]_vars

\* a turn hit the iteration cap and left two rounds of tool calls; the consolidation
\* of the next turn cut the first assistant tool-call message, and the turn ended
\* with a text: the session begins with the two tool results of the call cut
OrphanAfterConsolidation ==
    /\ BetweenTurns
    /\ cache[KeyCli].present
    /\ Len(cache[KeyCli].messages) >= 3
    /\ cache[KeyCli].messages[1].role = "tool"
    /\ cache[KeyCli].messages[2].role = "tool"
    /\ "tool_calls" \in DOMAIN cache[KeyCli].messages[3]

\* the save at the end of a turn cut an assistant tool-call message and one of its
\* two tool results: the session begins with the other
OrphanAfterSave ==
    /\ BetweenTurns
    /\ cache[KeyCli].present
    /\ Len(cache[KeyCli].messages) = MAX_MESSAGES
    /\ cache[KeyCli].messages[1].role = "tool"
    /\ cache[KeyCli].messages[1].tool_call_id = "c2"
    /\ cache[KeyCli].messages[2].role # "tool"

(***************************************************************************)
(* Specification: the scheduler publishing into a queue that channels fill *)
(***************************************************************************)
\* what a channel publishes while the jobs wait
BusyInputs == {<<KeyCli, TxtHi>>}

NextCronBusy ==
    \/ NextCron
    \/ \E u \in BusyInputs : n_user < MaxPublished /\ PublishInbound(u[1], u[2])

SpecCronBusy == Init /\ [][NextCronBusy]_vars

\* job j is in the file
InFile(file, j) == file.present /\ \E d \in file.data : d.id = j

\* the timer of a one-shot job fires while the inbound queue is full: the publish
\* returns False and the queue is as it was; the job leaves the map and the file,
\* and no timer is left for it
DroppedAndDeleted(j) ==
    (jobs[j].present /\ ~jobs[j].recurring /\ Len(inbound) >= MAX_QUEUE_SIZE
       /\ TimerWake(j)) =>
        /\ in_ret' = FALSE
        /\ inbound' = inbound
        /\ accepted_in' = accepted_in
        /\ last_fired'.ret = FALSE
        /\ ~jobs'[j].present
        /\ jobs_file'.present /\ ~InFile(jobs_file', j)
        /\ ~timers'[j].present

\* a one-shot job that has fired is gone for good, delivered or not: it is in neither
\* the map nor the file, it has no timer, and it has fired once
FiredOnce(j) ==
    (fire_count[j] > 0 /\ last_fired.job.present /\ last_fired.job.id = j
       /\ ~last_fired.job.recurring) =>
        /\ ~jobs[j].present
        /\ ~InFile(jobs_file, j)
        /\ ~timers[j].present
        /\ fire_count[j] = 1

\* the message of the last firing, when its publish was dropped, is not in the queue
\* and was never accepted
DroppedStaysOut ==
    (last_fired.job.present /\ ~last_fired.ret) =>
        /\ \A i \in 1..Len(inbound) : inbound[i].id # last_fired.msg.id
        /\ \A i \in 1..Len(accepted_in) : accepted_in[i] # last_fired.msg.id

\* C40: a one-shot job that fires while the inbound queue is full has its publish
\* dropped (publish_inbound returns False) and is deleted from the map and the file
\* all the same, so its message is never delivered and never retried
C40_DroppedOneShotDeleted ==
    /\ [][\A j \in JobIds : DroppedAndDeleted(j)]_vars
    /\ [](\A j \in JobIds : FiredOnce(j))
    /\ []DroppedStaysOut

\* C40 witness: channels filled the queue, then the one-shot job fired: its message
\* was dropped, and the job is in neither the map nor the file
C40_Witness ==
    /\ last_fired.job.present /\ ~last_fired.job.recurring
    /\ ~last_fired.ret /\ ~in_ret
    /\ n_user = MAX_QUEUE_SIZE
    /\ Len(inbound) = MAX_QUEUE_SIZE
    /\ \A i \in 1..Len(inbound) : inbound[i].sender_id = "user"
    /\ fire_count[last_fired.job.id] = 1
    /\ ~jobs[last_fired.job.id].present
    /\ jobs_file.present /\ jobs_file.data = {}

(***************************************************************************)
(* Specification: the scheduler with start() called while it is running    *)
(***************************************************************************)
\* the most timer tasks of one job that _timers has lost track of
MaxOrphans == 1

\* a task of _run_after / _run_cron that sleeps and that _timers holds no more;
\* it keeps the CronJob object it was created with
Orphan(kind, wake, job) == [kind |-> kind, wake |-> wake, job |-> job]

\* start() while running: _load_jobs puts new CronJob objects in the map, and
\* _schedule_job creates a task for every job and stores it over the entry of
\* the task that sleeps, which nothing cancels
CronStartAgain ==
    /\ cron_running
    /\ \A j \in JobIds : Sleeping(j) => Len(orphans[j]) < MaxOrphans
    /\ cron_running' = TRUE
    /\ LET loaded == load_jobs(jobs, jobs_file)
       IN /\ jobs' = loaded
          /\ timers' = [j \in JobIds |-> IF loaded[j].present
                                         THEN schedule_job(loaded[j]) ELSE timers[j]]
          /\ orphans' = [j \in JobIds |->
                            IF loaded[j].present /\ Sleeping(j)
                            THEN Append(orphans[j],
                                        Orphan(timers[j].kind, timers[j].wake, jobs[j]))
                            ELSE orphans[j]]
    /\ UNCHANGED <<jobs_file, now, next_job, fire_count, last_fired, cron_call>>
    /\ UNCHANGED <<cronFrame, inbound, inPub, accepted_in>>

\* seq without its i-th element
RemoveAt(seq, i) == SubSeq(seq, 1, i - 1) \o SubSeq(seq, i + 1, Len(seq))

\* the sleep of a task that _timers holds no more ends: _execute_job publishes the
\* message of the job object the task holds. _run_after then calls delete_job, which
\* cancels the task _timers holds for the id; _run_cron sets next_run on its own
\* object, saves the map, and sleeps again while _running is set
OrphanWake(j, i) ==
    /\ i \in 1..Len(orphans[j])
    /\ orphans[j][i].wake <= now
    /\ LET task == orphans[j][i]
           job == task.job
           m == InboundMessage(n_in + 1, ExecuteChannel(job), job.channel_id, "cron",
                               <<"[Scheduled Task: ">> \o job.name \o <<"] ">>
                                   \o job.message)
           r == Publish(inbound, m)
       IN /\ inbound' = r.queue
          /\ in_ret' = r.ret
          /\ n_in' = n_in + 1
          /\ accepted_in' = IF r.ret THEN Append(accepted_in, m.id) ELSE accepted_in
          /\ fire_count' = [fire_count EXCEPT ![j] = @ + 1]
          /\ last_fired' = [job |-> job, msg |-> m, at |-> now, ret |-> r.ret]
          /\ IF task.kind = "after"
             THEN /\ timers' = cancel_timer(timers, j)
                  /\ orphans' = [orphans EXCEPT ![j] = RemoveAt(@, i)]
                  /\ IF jobs[j].present
                     THEN /\ jobs' = delete_from(jobs, j)
                          /\ jobs_file' = save_jobs(delete_from(jobs, j))
                     ELSE UNCHANGED <<jobs, jobs_file>>
             ELSE /\ jobs_file' = save_jobs(jobs)
                  /\ orphans' = [orphans EXCEPT ![j] =
                                    IF cron_running
                                    THEN [@ EXCEPT ![i].wake = CronNext(job.schedule, now)]
                                    ELSE RemoveAt(@, i)]
                  /\ UNCHANGED <<jobs, timers>>
    /\ UNCHANGED <<cron_running, now, next_job, cron_call>>
    /\ UNCHANGED cronFrame

NextCronTwice ==
    \/ NextCron
    \/ CronStartAgain
    \/ \E j \in JobIds : \E i \in 1..MaxOrphans : OrphanWake(j, i)

SpecCronTwice == Init /\ [][NextCronTwice]_vars

\* the timer tasks of job j that sleep
LiveTasks(j) == (IF Sleeping(j) THEN 1 ELSE 0) + Len(orphans[j])

\* job j fires in this step
Fires(j) == fire_count'[j] = fire_count[j] + 1

\* job j has fired at this time already
FiredNow(j) ==
    /\ fire_count[j] > 0
    /\ last_fired.job.present /\ last_fired.job.id = j
    /\ last_fired.at = now

\* C36: every job id has at most one live timer task, and no job fires twice for
\* one due occurrence, after any sequence of start, stop, create and delete, with
\* start() called twice without a stop() between them
C36_OneLiveTimer ==
    /\ [](\A j \in JobIds : LiveTasks(j) <= 1)
    /\ [][\A j \in JobIds : Fires(j) => ~FiredNow(j)]_vars

\* a recurring job has two sleeping tasks
TwoLiveTasks ==
    \E j \in JobIds : jobs[j].present /\ jobs[j].recurring /\ LiveTasks(j) = 2

\* a job has fired twice at one time
FiredTwiceAtOnce ==
    \E j \in JobIds : fire_count[j] >= 2 /\ FiredNow(j) /\ last_fired.msg.id >= 2
                      /\ Len(orphans[j]) = 1 /\ orphans[j][1].wake > now
                      /\ Sleeping(j) /\ timers[j].wake > now

(***************************************************************************)
(* Specification: one session store with keys that share a file name       *)
(***************************************************************************)
\* the most messages a session of this store gets
MaxShardLen == 1

\* three keys that differ in ':', '/' and '_' only, and one that differs elsewhere
KeyColon == <<"u", ":", "1">>
KeySlash == <<"u", "/", "1">>
KeyUnder == <<"u", "_", "1">>
KeyApart == <<"v", ":", "1">>
ShardKeys == {KeyColon, KeySlash, KeyUnder, KeyApart}

\* the cache of a SessionManager just constructed
EmptyShardCache == [k \in ShardKeys |-> NoSession]

\* a turn appends a message to the session object of key; its text names the key
ShardAppend(key) ==
    /\ cache[key].present
    /\ Len(cache[key].messages) < MaxShardLen
    /\ cache' = [cache EXCEPT ![key].messages = Append(@, UserMsg(key))]
    /\ UNCHANGED <<disk, sess_saved, sessFrame>>

\* the process ends and a new SessionManager is constructed over the same directory
ShardRestart ==
    /\ cache' = EmptyShardCache
    /\ UNCHANGED <<disk, sess_saved, sessFrame>>

InitShard ==
    /\ InitBusEmpty
    /\ inbound_handlers = <<"agent">>
    /\ outbound_handlers = <<>>
    /\ a_pc = "idle" /\ a_iter = 0 /\ a_messages = <<>> /\ a_pending = <<>>
    /\ cache = EmptyShardCache
    /\ disk = [p \in {session_path(k) : k \in ShardKeys} |-> NoFile]
    /\ a_calls = 0 /\ a_ccalls = 0 /\ a_sent = <<>>
    /\ memory_md = initialize_memory(NoTextFile)
    /\ history_md = initialize_history(NoHistory)
    /\ InitCalls
    /\ tools = BuiltTools
    /\ InitSub
    /\ InitCron

NextShard ==
    \/ \E key \in ShardKeys : ShardAppend(key)
    \/ \E key \in ShardKeys : SessGetOrCreate(key)
    \/ \E key \in ShardKeys : SessSave(key)
    \/ \E key \in ShardKeys : SessDelete(key)
    \/ ShardRestart

SpecShard == InitShard /\ [][NextShard]_vars

(***************************************************************************)
(* Claims about keys and files (checked under SpecShard)                   *)
(***************************************************************************)
\* save or delete of the session of k1 leaves what get_or_create returns for k2
\* as it was, on this store and on a store with an empty cache
Untouched(k1, k2) ==
    ((cache[k1].present /\ SessSave(k1)) \/ SessDelete(k1)) =>
        /\ get_or_create(cache', disk', k2)[k2] = get_or_create(cache, disk, k2)[k2]
        /\ get_or_create(EmptyShardCache, disk', k2)[k2] =
              get_or_create(EmptyShardCache, disk, k2)[k2]

\* C35 (as claimed): for any two distinct keys, also keys that differ only in ':',
\* '/' or '_', saving or deleting the session of one never changes what
\* get_or_create returns for the other, with or without a cache entry
C35_Isolated ==
    [][\A k1, k2 \in ShardKeys : k1 # k2 => Untouched(k1, k2)]_vars

\* the same for keys whose file names differ
IsolatedByFileName ==
    [][\A k1, k2 \in ShardKeys :
          session_path(k1) # session_path(k2) => Untouched(k1, k2)]_vars

\* a store with an empty cache and no session of "u_1" saved gives, for "u_1", the
\* message of the session of "u:1"
SharedFile ==
    /\ cache = EmptyShardCache
    /\ sess_saved.present /\ sess_saved.key = KeyColon
    /\ get_or_create(cache, disk, KeyUnder)[KeyUnder].messages = <<UserMsg(KeyColon)>>

(***************************************************************************)
(* Specification: _parse_delay called directly                             *)
(***************************************************************************)
\* the longest schedule string tried
MaxDelayLen == 3

\* the characters of the strings tried: digits, the units, a letter that is no
\* unit, a blank and a newline
DelayChars == {"0", "1", "5", "9", "m", "h", "d", "s", " ", "\n"}

DelayInputs == UNION {[1..n -> DelayChars] : n \in 0..MaxDelayLen}

\* _parse_delay(delay): ValueError unless DELAY_PATTERN matches, else the seconds
parse_delay(s) ==
    IF DelayMatch(s)
    THEN [raised |-> FALSE, value |-> ParseDelay(s)]
    ELSE [raised |-> TRUE, value |-> 0]

\* a scheduler about to be asked for the delay of one of the strings
InitDelay ==
    /\ InitBusEmpty
    /\ inbound_handlers = <<"agent">>
    /\ outbound_handlers = <<>>
    /\ InitAgent
    /\ InitSub
    /\ InitCronService
    /\ \E s \in DelayInputs :
          cron_call = [action |-> "-", schedule |-> s, result |-> "-"]

\* the call of _parse_delay
DelayParse ==
    /\ cron_call.action = "-"
    /\ cron_call' = [action |-> "parse_delay", schedule |-> cron_call.schedule,
                     result |-> parse_delay(cron_call.schedule)]
    /\ UNCHANGED <<busVars, agentVars, subVars, callVars, cron_running, jobs, jobs_file,
                   timers, orphans, now, next_job, fire_count, last_fired>>

NextDelay == DelayParse

SpecDelay == InitDelay /\ [][NextDelay]_vars

(***************************************************************************)
(* Claims about _parse_delay (checked under SpecDelay)                     *)
(***************************************************************************)
\* the seconds of a string of the grammar: its number times the seconds of its unit
Seconds(s) ==
    LET value == ToInt(SubSeq(s, 1, Len(s) - 1))
        unit == s[Len(s)]
    IN IF unit = "m" THEN value * 60
       ELSE IF unit = "h" THEN value * 3600
       ELSE value * 86400

\* the latest call was _parse_delay
Parsed == cron_call.action = "parse_delay"

\* for a string of the grammar _parse_delay returns its seconds exactly
DelayExact ==
    (Parsed /\ DelayGrammar(cron_call.schedule)) =>
        /\ ~cron_call.result.raised
        /\ cron_call.result.value = Seconds(cron_call.schedule)

\* a string outside the grammar that does not end in a newline is rejected
DelayRejectedButNewline ==
    (Parsed /\ ~DelayGrammar(cron_call.schedule)
       /\ (cron_call.schedule = <<>>
            \/ cron_call.schedule[Len(cron_call.schedule)] # "\n")) =>
        cron_call.result.raised

\* C29 (as claimed): _parse_delay returns value * 60, value * 3600 or value * 86400
\* for every string <int><unit>, and raises for every other string
C29_ParseDelay ==
    Parsed =>
        /\ DelayGrammar(cron_call.schedule) =>
              /\ ~cron_call.result.raised
              /\ cron_call.result.value = Seconds(cron_call.schedule)
        /\ ~DelayGrammar(cron_call.schedule) => cron_call.result.raised

\* a string of the grammar followed by a newline was parsed to a number
DelayNewlineParsed ==
    /\ Parsed
    /\ cron_call.schedule = <<"5", "m", "\n">>
    /\ cron_call.result = [raised |-> FALSE, value |-> 300]
====
